---- MODULE Spec2Model ----
(***************************************************************************)
(* WebVerse Content Authoring: the AEM client session, the page-update     *)
(* helpers, the template/folder operations and the endpoint handlers that  *)
(* drive them, as one state machine.  One request is handled at a time;    *)
(* every remote call is one step whose outcome (an HTTP status, or a       *)
(* transport error) the remote repository chooses.                         *)
(*                                                                         *)
(* Strings the code takes apart (the market region, the paths built from   *)
(* it) are sequences of one-character strings; a path the code only hands  *)
(* on is a sequence holding one string.                                    *)
(***************************************************************************)
EXTENDS Naturals, Sequences, FiniteSets, TLC

VARIABLES
    pc,          \* position of the request handler
    req,         \* the request being handled
    aemTimeout,  \* whether AEM_TIMEOUT is set in the environment
    session,     \* the AEMClient of the request: opened/closed counts, csrf_token
    calls,       \* remote calls issued during the request, in order
    pages,       \* repository: properties stored at each page path
    folders,     \* repository: the DAM folders that exist
    local,       \* local variables of the handler or helper that is running
    resp,        \* what the handler gave back: a response body or an HTTP error
    prev,        \* request and result of the previous folder-structure call
    faults,      \* failures the repository has answered folder calls with so far
    copying,     \* repository: copies accepted from this request, still running
    peer         \* a second create_folder_structure call running concurrently

vars == <<pc, req, aemTimeout, session, calls, pages, folders, local, resp, prev,
          faults, copying, peer>>

----------------------------------------------------------------------------
(* Bounds of the model *)

\* longest market region drawn character by character
MaxRegionLen == 3

\* failed folder calls (transport errors, rejected creates) in one behaviour
MaxFaults == 1

----------------------------------------------------------------------------
(* Remote outcomes *)

\* a call that raised inside httpx (connection refused, timeout): no status
ConnectError == 0

\* statuses the remote repository answers with
Statuses == {200, 201, 204, 404}

\* what one remote call can come back with
Outcomes == Statuses \cup {ConnectError}

\* response.raise_for_status(): raises unless the status is 2xx (a call that
\* failed in transport raised before it)
raise_for_status(status) == status = ConnectError \/ status \div 100 # 2

\* the repository's side of a POST: Sling answers 200 (changed) or 201
\* (created) to a POST it has applied, and applies no other
RepoApplies(status) == status \in {200, 201}

----------------------------------------------------------------------------
(* Paths and payloads *)

NoPath == <<>>

P404 == <<"/content/site/404">>
P500 == <<"/content/site/500">>
PagePaths == {P404, P500}

\* a JCR payload: present (a mapping) or absent (None); the mapping is a
\* function from property names to values
NonePayload == [present |-> FALSE, map |-> <<>>]
EmptyPayload == [present |-> TRUE, map |-> <<>>]
Mapping(m) == [present |-> TRUE, map |-> m]
TitleA == [k \in {"jcr:title"} |-> "A"]
TitleB == [k \in {"jcr:title"} |-> "B"]
TitleCharset == [k \in {"jcr:title", "_charset_"} |->
                    IF k = "_charset_" THEN "latin1" ELSE "A"]

\* payloads a validated request body can carry (Dict[str, Any])
DictPayloads == {EmptyPayload, Mapping(TitleA), Mapping(TitleB), Mapping(TitleCharset)}
\* payloads of an Optional[Dict[str, Any]] field
OptionalPayloads == DictPayloads \cup {NonePayload}

\* Python truthiness of a payload: None and {} are falsy
Truthy(payload) == payload.present /\ DOMAIN payload.map # {}

\* page_data = custom_jcr_content.copy(); page_data["_charset_"] = "utf-8"
WithCharset(m) ==
    [k \in DOMAIN m \cup {"_charset_"} |->
        IF k = "_charset_" THEN "utf-8" ELSE m[k]]

\* what a Sling POST stores: the posted properties over the stored ones;
\* _charset_ is a request directive, not a property
Stored(old, data) ==
    [k \in (DOMAIN old \cup DOMAIN data) \ {"_charset_"} |->
        IF k \in DOMAIN data THEN data[k] ELSE old[k]]

----------------------------------------------------------------------------
(* Errors and results *)

\* str(e) of an exception: httpx's HTTPStatusError names status and URL, a
\* transport error names neither, an Exception raised by a helper carries
\* the helper's text
Err(text, status, url) == [text |-> text, status |-> status, url |-> url]
NoErr == Err("none", 0, NoPath)

StrOfRequestError(status, url) ==
    IF status = ConnectError THEN Err("ConnectError", 0, NoPath)
    ELSE Err("HTTPStatusError", status, url)

\* the dict a helper returns
Result(success, path, error, skipped) ==
    [success |-> success, path |-> path, error |-> error, skipped |-> skipped]
NoResult == Result(FALSE, NoPath, Err("unset", 0, NoPath), FALSE)

\* what a handler gives back: http 200 with a body, or an HTTPException
Response(http, success, message, path, error) ==
    [http |-> http, success |-> success, message |-> message,
     path |-> path, error |-> error]
NoResponse == Response(0, FALSE, "unset", NoPath, NoErr)

----------------------------------------------------------------------------
(* AEMClient: the session *)

NoToken == "None"
TokenUrl == <<"/libs/granite/csrf/token.json">>
LoginUrl == <<"/libs/granite/core/content/login.html">>

\* what the token endpoint answers: a status, and the "token" entry of the
\* JSON body ("missing" when the body has none)
TokenReplies ==
    {[status |-> 200, token |-> t] : t \in {"tokA", "", "missing"}}
        \cup {[status |-> s, token |-> "missing"] : s \in {404, ConnectError}}

\* a fetch that keeps whatever the reply carried
fetch_csrf_token_KeepsReply(reply) == reply.token

\* fetch_csrf_token: the token of a 2xx reply, None on any failure
fetch_csrf_token(reply) ==
    IF raise_for_status(reply.status) THEN NoToken
    ELSE IF reply.token = "missing" THEN NoToken
    ELSE reply.token

Headers(name, value) == [name |-> name, value |-> value]
\* a request sent with the client's default headers only (Referer)
NoHeaders == Headers("none", "")

\* headers built from a token of their own
get_headers_OwnToken(token) == Headers("CSRF-Token", "tok0")

\* _get_headers: CSRF-Token when the token is truthy, else X-Requested-With
get_headers(token) ==
    IF token # NoToken /\ token # ""
    THEN Headers("CSRF-Token", token)
    ELSE Headers("X-Requested-With", "XMLHttpRequest")

\* one remote call as it went out, and the status it came back with
Call(method, url, headers, data, status) ==
    [method |-> method, url |-> url, headers |-> headers,
     data |-> data, status |-> status, body |-> "none"]

NoSession == [opened |-> 0, closed |-> 0, token |-> NoToken]

\* __aenter__: fetch the token, hand back the client
aenter(reply) == [opened |-> 1, closed |-> 0, token |-> fetch_csrf_token(reply)]

\* an exit that leaves the httpx client open
aexit_NoClose(s) == s

\* __aexit__: close the httpx client
aexit(s) == [s EXCEPT !.closed = @ + 1]

\* a probe that takes every 2xx answer for a connection
test_connection_Any2xx(status) == status \in 200..299

\* a probe that takes a call that raised for a connection
test_connection_TrueOnError(status) == status \in {200, ConnectError}

\* test_connection: True iff the login page answered 200
test_connection(status) == status = 200

----------------------------------------------------------------------------
(* Page-update helpers: create_error_page, update_protected_page,          *)
(* update_login_page, modify_site_locale                                   *)

\* a status check that forgets 201
update_page_only_200(status) == status = 200

\* update_page_with_jcr_content: True iff the POST answered 200 or 201;
\* False for every other status and for an exception
update_page_with_jcr_content(status) == status \in {200, 201}

\* the POST update_page_with_jcr_content issues: no headers argument
UpdateCall(page_path, page_data, status) ==
    Call("POST", page_path, NoHeaders, page_data, status)

\* a payload check that tests for None only and lets an empty mapping through
HelperWritesIfPresent(helper, payload) == payload.present

\* whether the helper reaches its write: modify_site_locale returns early on
\* None (skipped) and on an empty mapping, the others on any falsy payload
HelperWrites(helper, payload) == Truthy(payload)

\* a locale helper that treats an absent payload like an empty one
HelperResultNoSkip(helper, page_path, payload, status) ==
    IF ~Truthy(payload)
    THEN Result(FALSE, page_path, Err("No JCR content provided", 0, NoPath), FALSE)
    ELSE IF ~update_page_with_jcr_content(status)
    THEN Result(FALSE, page_path, Err("Failed to update page", 0, NoPath), FALSE)
    ELSE Result(TRUE, page_path, NoErr, FALSE)

\* the dict the helper returns; status is the outcome of its write, read
\* only when the helper reached the write
HelperResult(helper, page_path, payload, status) ==
    IF helper = "locale" /\ ~payload.present
    THEN Result(TRUE, page_path, NoErr, TRUE)
    ELSE IF ~Truthy(payload)
    THEN Result(FALSE, page_path, Err("No JCR content provided", 0, NoPath), FALSE)
    ELSE IF ~update_page_with_jcr_content(status)
    THEN Result(FALSE, page_path, Err("Failed to update page", 0, NoPath), FALSE)
    ELSE Result(TRUE, page_path, NoErr, FALSE)

\* a helper that writes only when the request has written nothing yet
HelperCallsOnceARequest(helper, page_path, payload, status) ==
    IF HelperWrites(helper, payload) /\ \A k \in 1..Len(calls) : calls[k].method # "POST"
    THEN Append(calls, UpdateCall(page_path, WithCharset(payload.map), status))
    ELSE calls

\* a helper that sends a failed write a second time
HelperCallsRetry(helper, page_path, payload, status) ==
    IF ~HelperWrites(helper, payload) THEN calls
    ELSE IF status \in {200, 201}
    THEN Append(calls, UpdateCall(page_path, WithCharset(payload.map), status))
    ELSE calls \o << UpdateCall(page_path, WithCharset(payload.map), status),
                     UpdateCall(page_path, WithCharset(payload.map), status) >>

\* the calls of the request after the helper ran
HelperCalls(helper, page_path, payload, status) ==
    IF HelperWrites(helper, payload)
    THEN Append(calls, UpdateCall(page_path, WithCharset(payload.map), status))
    ELSE calls

\* a helper that sets the charset on the mapping it was given
CallerPayloadAfterInPlace(helper, payload) ==
    IF HelperWrites(helper, payload) THEN Mapping(WithCharset(payload.map))
    ELSE payload

\* custom_jcr_content as the caller holds it once the helper has returned:
\* page_data is a copy (custom_jcr_content.copy()), so setting _charset_ on
\* it leaves the caller's mapping as it was
CallerPayloadAfter(helper, payload) == payload

\* the repository after the helper ran
HelperPages(helper, page_path, payload, status) ==
    IF HelperWrites(helper, payload) /\ RepoApplies(status)
    THEN [pages EXCEPT ![page_path] = Stored(@, WithCharset(payload.map))]
    ELSE pages

----------------------------------------------------------------------------
(* Endpoint handlers of content.py: requests and responses *)

HTTP_200 == 200
HTTP_400 == 400
HTTP_404 == 404
HTTP_500 == 500

ErrorPageRequests ==
    [ep : {"create-error-pages"},
     page_path_404 : PagePaths, page_path_500 : PagePaths,
     jcr_content_404 : DictPayloads, jcr_content_500 : DictPayloads]

\* protected-page and create-login-page take a page path and a Dict;
\* modify_site_locale takes a page path and an Optional[Dict]
PageRequests ==
    [ep : {"protected-page", "create-login-page"},
     page_path : PagePaths, jcr_content : DictPayloads]
        \cup [ep : {"modify-locale"},
              page_path : PagePaths, jcr_content : OptionalPayloads]

HelperOf(ep) ==
    CASE ep = "create-error-pages" -> "error"
      [] ep = "protected-page" -> "protected"
      [] ep = "create-login-page" -> "login"
      [] ep = "modify-locale" -> "locale"

\* an HTTPException leaving the handler
HTTPException(status_code, detail) ==
    Response(status_code, FALSE, detail, NoPath, NoErr)

\* a health body that reports healthy whatever the probe said
HealthResponseAlwaysHealthy(is_connected) ==
    Response(HTTP_200, TRUE, "healthy", NoPath, Err("connected", 0, NoPath))

\* the dict aem_health returns inside the session block: message is its
\* "status" entry, error.text its "aem" entry
HealthResponse(is_connected) ==
    Response(HTTP_200, is_connected,
             IF is_connected THEN "healthy" ELSE "unhealthy", NoPath,
             Err(IF is_connected THEN "connected" ELSE "disconnected", 0, NoPath))

\* the dict aem_health returns from its except clause
HealthError == Response(HTTP_200, FALSE, "unhealthy", NoPath, Err("error", 0, NoPath))

HealthRequests == {[ep |-> "health-aem"]}

\* an aggregate that takes either page's success for both
ErrorPagesResponseAny(result_404, result_500) ==
    LET all_successful == result_404.success \/ result_500.success
    IN  Response(HTTP_200, all_successful,
                 IF all_successful
                 THEN "Successfully updated 404 and 500 error pages"
                 ELSE "Partial success: Some error page updates failed",
                 NoPath, NoErr)

\* ErrorPageCreateResponse of create_error_pages
ErrorPagesResponse(result_404, result_500) ==
    LET all_successful == result_404.success /\ result_500.success
    IN  Response(HTTP_200, all_successful,
                 IF all_successful
                 THEN "Successfully updated 404 and 500 error pages"
                 ELSE "Partial success: Some error page updates failed",
                 NoPath, NoErr)

\* ProtectedPageCreateResponse / LoginPageCreateResponse built from the
\* helper's result
PageResponse(page_result) ==
    Response(HTTP_200, page_result.success,
             IF page_result.success THEN "Successfully updated page"
             ELSE "Failed to update page",
             IF page_result.success THEN page_result.path ELSE NoPath,
             IF page_result.success THEN NoErr ELSE page_result.error)

\* the dict create_folder_structure returns; a key the dict lacks is None
FolderResult(success, hcp_images, hcp_pdfs, patient_images, patient_pdfs, created, error) ==
    [success |-> success,
     hcp_images_path |-> hcp_images, hcp_pdfs_path |-> hcp_pdfs,
     patient_images_path |-> patient_images, patient_pdfs_path |-> patient_pdfs,
     created_folders |-> created, error |-> error, error_path |-> NoPath]
NoFolderResult == FolderResult(FALSE, NoPath, NoPath, NoPath, NoPath, <<>>, "unset")

\* the dict create_experience_fragments returns
XfOutcome(success, results, total, successful, failed) ==
    [success |-> success, results |-> results,
     summary |-> [total |-> total, successful |-> successful, failed |-> failed]]
NoXfOutcome == XfOutcome(FALSE, <<>>, 0, 0, 0)

\* locals of create_experience_fragments: html_template, what
\* ensure_xf_folder_exists returned ("True" or "False"; the function drops
\* it), the results dict, and the dict it returns
NoXf == [html |-> "unset", ensured |-> "unset", results |-> <<>>, out |-> NoXfOutcome]

\* r1, r2, out: results and outcome of the endpoint handlers;
\* i, created, fs: create_folder_structure's position in its folder levels,
\* its created_folders list and the dict it returns;
\* xf: the locals of create_experience_fragments (i is its loop position);
\* m1, m2: the payload mappings of the request as the handler holds them
\* after the first and the second helper call
NoRequest == [ep |-> "none"]

\* the "data" of the dict get_app returns: the handler's body, or the
\* success/error entries of an except clause, or the unknown-endpoint
\* entries
Data(kind, success, error, endpoints, body) ==
    [kind |-> kind, success |-> success, error |-> error,
     available_endpoints |-> endpoints, body |-> body]

\* the dict get_app returns
Envelope(data) == [data |-> data, model_time_ms |-> 0, timing |-> 0]

NoEnvelope == Envelope(Data("unset", "absent", "none", <<>>, NoResponse))

\* a call of get_app: its payload, the request object handed to the
\* handler, and how the call ended
NoApp ==
    [payload |-> [endpoint |-> [is_str |-> TRUE, text |-> <<>>], body_ok |-> FALSE],
     request |-> NoRequest, returned |-> FALSE, raised |-> FALSE,
     result |-> NoEnvelope]

\* the dict upload_files_to_dam returns; the early return for "nothing
\* provided" carries no totals and no lists
NoUploadResult ==
    [success |-> FALSE, message |-> "unset", has_totals |-> FALSE,
     total_successful |-> 0, total_failed |-> 0,
     uploaded_images |-> <<>>, uploaded_pdfs |-> <<>>]

\* the locals of upload_files_to_dam
NoUpload ==
    [uploaded_images |-> <<>>, uploaded_pdfs |-> <<>>,
     total_successful |-> 0, total_failed |-> 0, out |-> NoUploadResult]

Locals(r1, r2, out) ==
    [r1 |-> r1, r2 |-> r2, out |-> out,
     i |-> 0, created |-> <<>>, fs |-> NoFolderResult, xf |-> NoXf,
     m1 |-> NonePayload, m2 |-> NonePayload, up |-> NoUpload, app |-> NoApp]
NoLocals == Locals(NoResult, NoResult, NoResponse)

\* the second of two concurrent create_folder_structure calls: its position,
\* its level, its created_folders, the dict it returns and its remote calls
NoPeer == [pc |-> "none", i |-> 0, created |-> <<>>, fs |-> NoFolderResult,
           calls |-> <<>>]
NoPrev == [ep |-> "none"]

----------------------------------------------------------------------------
(* sites.py: duplicate-template and list-pages *)

UpperCase == <<"A","B","C","D","E","F","G","H","I","J","K","L","M",
               "N","O","P","Q","R","S","T","U","V","W","X","Y","Z">>
LowerCase == <<"a","b","c","d","e","f","g","h","i","j","k","l","m",
               "n","o","p","q","r","s","t","u","v","w","x","y","z">>

IsUpper(c) == \E i \in 1..Len(UpperCase) : UpperCase[i] = c

\* str.lower(), character by character
lower(str) ==
    [i \in 1..Len(str) |->
        IF IsUpper(str[i])
        THEN LowerCase[CHOOSE j \in 1..Len(UpperCase) : UpperCase[j] = str[i]]
        ELSE str[i]]

\* str.replace(old, new) for one-character old and new
replace(str, old, new) ==
    [i \in 1..Len(str) |-> IF str[i] = old THEN new ELSE str[i]]

\* a sanitization that forgets to lower-case
market_sanitized_NoLower(market_region) == replace(market_region, " ", "-")

\* market_sanitized = request.market_region.lower().replace(" ", "-")
market_sanitized(market_region) == replace(lower(market_region), " ", "-")

\* new_page_name = f"hcp-{market_sanitized}"
new_page_name(market_region) == <<"h", "c", "p", "-">> \o market_sanitized(market_region)

\* new_page_title = f"hcp-{request.market_region}"
new_page_title(market_region) == <<"h", "c", "p", "-">> \o market_region

destination_parent_path == <<"/content/buildeasy/mava">>

\* new_page_path = f"{destination_parent_path}/{new_page_name}"
new_page_path(parent, name) == parent \o <<"/">> \o name

NewZealand == <<"N","e","w"," ","Z","e","a","l","a","n","d">>
Regions == {NewZealand, <<"U", "K">>, <<"i", "n">>}

\* every market region of at most MaxRegionLen characters over an alphabet
\* with an upper-case letter, a lower-case letter, a space and a hyphen
RegionChars == {"N", "z", " ", "-"}
BoundedRegions == UNION {[1..n -> RegionChars] : n \in 0..MaxRegionLen}
SourcePaths == {<<"/content/buildeasy/mava/mava-template">>}
SitePaths == {<<"/content/commercial/mava-international">>}

DuplicateRequests ==
    [ep : {"duplicate-template"}, market_region : Regions, source_path : SourcePaths]
ListRequests == [ep : {"list-pages"}, site_path : SitePaths]
SanitizeRequests ==
    [ep : {"duplicate-template"},
     market_region : BoundedRegions \cup {NewZealand}, source_path : SourcePaths]

\* copy_data of duplicate_page_template
copy_data(dest) ==
    [k \in {":operation", ":dest", ":async", "_charset_"} |->
        CASE k = ":operation" -> <<"copy">>
          [] k = ":dest" -> dest
          [] k = ":async" -> <<"true">>
          [] k = "_charset_" -> "utf-8"]

\* update_data of duplicate_page_template: the title, the charset, and the
\* additional properties under jcr:content/
update_data(title, market_region, source_path) ==
    [k \in {"jcr:content/jcr:title", "_charset_", "jcr:content/marketRegion",
            "jcr:content/templateType", "jcr:content/sourceTemplate"} |->
        CASE k = "jcr:content/jcr:title" -> title
          [] k = "_charset_" -> "utf-8"
          [] k = "jcr:content/marketRegion" -> market_region
          [] k = "jcr:content/templateType" -> <<"duplicated-mava-template">>
          [] k = "jcr:content/sourceTemplate" -> source_path]

\* the failure dict of duplicate_page_template: error is str(e)
DuplicateFailure(status, url) ==
    Result(FALSE, NoPath, StrOfRequestError(status, url), FALSE)

\* a response that reports every duplication as done
DuplicateResponseAlwaysDone(result) ==
    Response(HTTP_200, TRUE, "none", result.path, NoErr)

\* DuplicateTemplateResponse built from the result of duplicate_page_template
DuplicateResponse(result) ==
    IF result.success
    THEN Response(HTTP_200, TRUE, "none", result.path, NoErr)
    ELSE Response(HTTP_200, FALSE, "none", NoPath, result.error)

\* duplicate_empty_template and list_pages: test the connection first;
\* aem_health: test the connection and report it
Probe ==
    /\ pc \in {"dt_probe", "ls_probe", "h_probe"}
    /\ \E status \in Outcomes :
          /\ calls' = Append(calls, Call("GET", LoginUrl, NoHeaders, <<>>, status))
          /\ IF pc = "h_probe"
             THEN /\ pc' = "exit"
                  /\ local' = [local EXCEPT !.out =
                        HealthResponse(test_connection(status))]
             ELSE IF test_connection(status)
             THEN /\ pc' = IF pc = "dt_probe" THEN "dt_copy" ELSE "ls_read"
                  /\ local' = local
             ELSE /\ pc' = "exit"
                  /\ local' = [local EXCEPT !.out =
                        HTTPException(HTTP_400, "Cannot connect to AEM instance")]
    /\ UNCHANGED <<req, aemTimeout, session, pages, folders, resp, prev, faults, copying, peer>>

\* duplicate_page_template: the copy request; the copy is asked for with
\* :async = true, so a repository that accepts it answers at once and runs
\* the copy afterwards
DuplicateCopy ==
    /\ pc = "dt_copy"
    /\ \E status \in Outcomes :
          LET dest == new_page_path(destination_parent_path,
                                    new_page_name(req.market_region))
              result == DuplicateFailure(status, req.source_path)
          IN  /\ calls' = Append(calls, Call("POST", req.source_path,
                                  get_headers(session.token), copy_data(dest), status))
              /\ copying' = IF RepoApplies(status) THEN copying \cup {dest}
                            ELSE copying
              /\ IF raise_for_status(status)
                 THEN /\ local' = [local EXCEPT !.r1 = result,
                                                !.out = DuplicateResponse(result)]
                      /\ pc' = "exit"
                 ELSE /\ local' = local
                      /\ pc' = "dt_update"
    /\ UNCHANGED <<req, aemTimeout, session, pages, folders, resp, prev, faults, peer>>

\* the repository finishes a copy it had accepted
CopyCompletes ==
    /\ \E dest \in copying : copying' = copying \ {dest}
    /\ UNCHANGED <<pc, req, aemTimeout, session, calls, pages, folders, local,
                   resp, prev, faults, peer>>

\* duplicate_page_template: the property update on the new page
DuplicateUpdate ==
    /\ pc = "dt_update"
    /\ \E status \in Outcomes :
          LET dest == new_page_path(destination_parent_path,
                                    new_page_name(req.market_region))
              data == update_data(new_page_title(req.market_region),
                                  req.market_region, req.source_path)
              result == IF raise_for_status(status)
                        THEN DuplicateFailure(status, dest)
                        ELSE Result(TRUE, dest, NoErr, FALSE)
          IN  /\ calls' = Append(calls, Call("POST", dest,
                                  get_headers(session.token), data, status))
              /\ local' = [local EXCEPT !.r1 = result,
                                        !.out = DuplicateResponse(result)]
    /\ pc' = "exit"
    /\ UNCHANGED <<req, aemTimeout, session, pages, folders, resp, prev, faults, copying, peer>>

\* what a tree read answers: a status and, when 2xx, the parsed JSON body:
\* "tree" a non-empty object, "empty" the object {}, "list" a JSON array
ReadReplies ==
    {[status |-> 200, body |-> b] : b \in {"tree", "empty", "list"}}
        \cup {[status |-> s, body |-> "none"] : s \in {404, ConnectError}}

\* the GET of list_pages and get_page_content
ReadCall(path, reply) ==
    [Call("GET", path \o <<".infinity.json">>, NoHeaders, <<>>, reply.status)
        EXCEPT !.body = reply.body]

\* a handler that never looks at whether the tree is empty
ListResponseNoEmptyCheck(site_path, reply) ==
    IF raise_for_status(reply.status) \/ reply.body = "list"
    THEN HTTPException(HTTP_404, "Site path not found or inaccessible")
    ELSE Response(HTTP_200, TRUE, "none", site_path, NoErr)

\* ListPagesResponse, or the HTTPException the inner except clause raises:
\* for a read that raised, and for a body the response model rejects
\* (jcr_content: Optional[Dict[str, Any]])
ListResponse(site_path, reply) ==
    IF raise_for_status(reply.status) \/ reply.body = "list"
    THEN HTTPException(HTTP_404, "Site path not found or inaccessible")
    ELSE IF reply.body = "tree"
    THEN Response(HTTP_200, TRUE, "none", site_path, NoErr)
    ELSE Response(HTTP_200, FALSE, "none", NoPath,
                  Err("No content found at path", 0, site_path))

\* list_pages: the tree read
ListRead ==
    /\ pc = "ls_read"
    /\ \E reply \in ReadReplies :
          /\ calls' = Append(calls, ReadCall(req.site_path, reply))
          /\ local' = [local EXCEPT !.out = ListResponse(req.site_path, reply)]
    /\ pc' = "exit"
    /\ UNCHANGED <<req, aemTimeout, session, pages, folders, resp, prev, faults, copying, peer>>

GetRequests == [ep : {"get-protected-page"}, page_path : PagePaths]

\* a handler whose failed read escapes to the outer except clause
GetResponseFailedReadRaises(page_path, reply) ==
    IF raise_for_status(reply.status) \/ reply.body = "list"
    THEN HTTPException(HTTP_500, "Failed to fetch protected page")
    ELSE Response(HTTP_200, TRUE, "Successfully retrieved protected page",
                  page_path, NoErr)

\* ProtectedPageGetResponse of get_protected_page: a read that raised is a
\* failure in the body; a body the response model rejects (page_content:
\* Optional[Dict[str, Any]]) raises inside the session block and reaches the
\* outer except clause
GetResponse(page_path, reply) ==
    IF raise_for_status(reply.status)
    THEN Response(HTTP_200, FALSE, "Failed to retrieve protected page", NoPath,
                  StrOfRequestError(reply.status, page_path))
    ELSE IF reply.body = "list"
    THEN HTTPException(HTTP_500, "Failed to fetch protected page")
    ELSE Response(HTTP_200, TRUE, "Successfully retrieved protected page",
                  page_path, NoErr)

\* get_protected_page: the page read
GetRead ==
    /\ pc = "gp_read"
    /\ \E reply \in ReadReplies :
          /\ calls' = Append(calls, ReadCall(req.page_path, reply))
          /\ local' = [local EXCEPT !.out = GetResponse(req.page_path, reply)]
    /\ pc' = "exit"
    /\ UNCHANGED <<req, aemTimeout, session, pages, folders, resp, prev, faults, copying, peer>>

----------------------------------------------------------------------------
(* dam_folder_operations.py: create_folder_structure *)

\* str.upper(), character by character
upper(str) ==
    [i \in 1..Len(str) |->
        IF \E j \in 1..Len(LowerCase) : LowerCase[j] = str[i]
        THEN UpperCase[CHOOSE j \in 1..Len(LowerCase) : LowerCase[j] = str[i]]
        ELSE str[i]]

\* dam_path.rstrip('/') on a path whose trailing slashes are separate elements
RECURSIVE rstrip(_)
rstrip(path) ==
    IF path # <<>> /\ path[Len(path)] = "/"
    THEN rstrip(SubSeq(path, 1, Len(path) - 1))
    ELSE path

HCP == <<"H", "C", "P">>
PATIENT == <<"P", "A", "T", "I", "E", "N", "T">>
BOTH == <<"B", "O", "T", "H">>

\* site = site.upper(); site in ['HCP', 'PATIENT', 'BOTH']
ValidSite(site) == upper(site) \in {HCP, PATIENT, BOTH}

\* sites_to_create
sites_to_create(site) ==
    CASE upper(site) = HCP -> <<"HCP">>
      [] upper(site) = PATIENT -> <<"Patient">>
      [] upper(site) = BOTH -> <<"HCP", "Patient">>
      [] OTHER -> <<>>

market_path(r) == rstrip(r.dam_path) \o <<"/", r.market>>
locale_path(r) == market_path(r) \o <<"/", r.locale>>
site_path(r, site_type) == locale_path(r) \o <<"/", site_type>>
images_path(r, site_type) == site_path(r, site_type) \o <<"/", "Images">>
pdfs_path(r, site_type) == site_path(r, site_type) \o <<"/", "PDFs">>

Level(kind, path) == [kind |-> kind, path |-> path]

\* the levels of one site type with Images ahead of its site folder
SiteLevelsImagesFirst(r, site_type) ==
    << Level("Images", images_path(r, site_type)),
       Level("site", site_path(r, site_type)),
       Level("PDFs", pdfs_path(r, site_type)) >>

\* the three levels of one site type: the site folder, Images, PDFs
SiteLevels(r, site_type) ==
    << Level("site", site_path(r, site_type)),
       Level("Images", images_path(r, site_type)),
       Level("PDFs", pdfs_path(r, site_type)) >>

RECURSIVE AllSiteLevels(_, _)
AllSiteLevels(r, types) ==
    IF types = <<>> THEN <<>>
    ELSE SiteLevels(r, Head(types)) \o AllSiteLevels(r, Tail(types))

\* the folder levels in the order the function walks them
Levels(r) ==
    << Level("market", market_path(r)), Level("locale", locale_path(r)) >>
        \o AllSiteLevels(r, sites_to_create(r.site))

HasType(r, site_type) ==
    \E k \in 1..Len(sites_to_create(r.site)) : sites_to_create(r.site)[k] = site_type

\* the result dict when every level was found or created
FolderSuccess(r, created) ==
    FolderResult(TRUE,
        IF HasType(r, "HCP") THEN images_path(r, "HCP") ELSE NoPath,
        IF HasType(r, "HCP") THEN pdfs_path(r, "HCP") ELSE NoPath,
        IF HasType(r, "Patient") THEN images_path(r, "Patient") ELSE NoPath,
        IF HasType(r, "Patient") THEN pdfs_path(r, "Patient") ELSE NoPath,
        created, "none")

\* the dict returned at the level whose create failed: its error names the
\* kind of the level and the path of the folder
FolderFailure(level) ==
    [FolderResult(FALSE, NoPath, NoPath, NoPath, NoPath, <<>>, level.kind)
        EXCEPT !.error_path = level.path]

\* an existence check that looks for the status of a creation
check_folder_exists_201(status) == status = 201

\* check_folder_exists: True iff the GET answered 200; False on an exception
check_folder_exists(status) == status = 200

\* a create that takes every answer of the repository for a creation
create_dam_folder_AnyAnswer(status) == status # ConnectError

\* create_dam_folder: True iff the POST answered 200 or 201
create_dam_folder(status) == status \in {200, 201}

\* folder_data of create_dam_folder
folder_data(title) ==
    [k \in {"jcr:primaryType", "jcr:title", "_charset_"} |->
        CASE k = "jcr:primaryType" -> "sling:Folder"
          [] k = "jcr:title" -> title
          [] k = "_charset_" -> "utf-8"]

\* what the repository answers to a GET of a folder path: 200 when the folder
\* exists, 404 when it does not, or the call fails in transport
CheckOutcomes(path) ==
    {IF path \in folders THEN 200 ELSE 404}
        \cup (IF faults < MaxFaults THEN {ConnectError} ELSE {})

\* what the repository answers to the POST of a folder: 201 when it creates
\* the node, 200 when the node was there, or it rejects the POST, or the
\* call fails in transport
CreateOutcomes(path) ==
    {IF path \in folders THEN 200 ELSE 201}
        \cup (IF faults < MaxFaults THEN {500, ConnectError} ELSE {})

IsFault(status) == status \in {500, ConnectError}

DamPaths == {<<"/content/dam/mava">>, <<"/content/dam/mava", "/">>}
Markets == {"India"}
Locales == {"En"}
Sites == {<<"H","C","P">>, <<"P","a","t","i","e","n","t">>, <<"B","o","t","h">>,
          <<"h","c","p">>, <<"X">>}

FolderRequests ==
    [ep : {"folder-structure"}, dam_path : DamPaths, market : Markets,
     locale : Locales, site : Sites]

\* create_folder_structure is called with an open client: validate the site
\* type, build the paths
FolderStart(r) ==
    /\ pc = "idle"
    /\ req' = r
    /\ IF ValidSite(r.site)
       THEN /\ local' = [local EXCEPT !.i = 1, !.created = <<>>]
            /\ pc' = "fs_check"
       ELSE /\ local' = [local EXCEPT !.fs =
                  FolderResult(FALSE, NoPath, NoPath, NoPath, NoPath, <<>>,
                               "Invalid site type")]
            /\ pc' = "done"
    /\ UNCHANGED <<aemTimeout, session, calls, pages, folders, resp, prev, faults, copying, peer>>

\* after level i is in place: the next level, or the result
FolderAdvance(created) ==
    IF local.i = Len(Levels(req))
    THEN /\ local' = [local EXCEPT !.created = created,
                                   !.fs = FolderSuccess(req, created)]
         /\ pc' = "done"
    ELSE /\ local' = [local EXCEPT !.created = created, !.i = @ + 1]
         /\ pc' = "fs_check"

\* check_folder_exists for the current level
FolderCheck ==
    /\ pc = "fs_check"
    /\ LET level == Levels(req)[local.i]
       IN  \E status \in CheckOutcomes(level.path) :
              /\ calls' = Append(calls, Call("GET", level.path, NoHeaders, <<>>, status))
              /\ faults' = IF IsFault(status) THEN faults + 1 ELSE faults
              /\ IF check_folder_exists(status)
                 THEN FolderAdvance(local.created)
                 ELSE /\ pc' = "fs_create"
                      /\ local' = local
    /\ UNCHANGED <<req, aemTimeout, session, pages, folders, resp, prev, copying, peer>>

\* create_dam_folder for the current level
FolderCreate ==
    /\ pc = "fs_create"
    /\ LET level == Levels(req)[local.i]
       IN  \E status \in CreateOutcomes(level.path) :
              /\ calls' = Append(calls, Call("POST", level.path, NoHeaders,
                                             folder_data(level.kind), status))
              /\ faults' = IF IsFault(status) THEN faults + 1 ELSE faults
              /\ folders' = IF RepoApplies(status) THEN folders \cup {level.path}
                            ELSE folders
              /\ IF create_dam_folder(status)
                 THEN FolderAdvance(Append(local.created, level.path))
                 ELSE /\ local' = [local EXCEPT !.fs = FolderFailure(level)]
                      /\ pc' = "done"
    /\ UNCHANGED <<req, aemTimeout, session, pages, resp, prev, copying, peer>>

\* the arguments of the concurrent calls: one site type, so five levels each
RaceRequests ==
    {r \in FolderRequests : r.site = HCP /\ r.dam_path = <<"/content/dam/mava">>}

\* two calls of create_folder_structure with the same arguments are started
\* and run concurrently: each await of a check or a create is a point where
\* the other call can run
RaceStart(r) ==
    /\ pc = "idle"
    /\ ValidSite(r.site)
    /\ req' = r
    /\ local' = [local EXCEPT !.i = 1, !.created = <<>>]
    /\ pc' = "fs_check"
    /\ peer' = [NoPeer EXCEPT !.pc = "fs_check", !.i = 1]
    /\ UNCHANGED <<aemTimeout, session, calls, pages, folders, resp, prev, faults, copying>>

\* the second call after its level i is in place: the next level, or the result
PeerAdvance(cs, created) ==
    IF peer.i = Len(Levels(req))
    THEN [peer EXCEPT !.calls = cs, !.created = created,
                      !.fs = FolderSuccess(req, created), !.pc = "done"]
    ELSE [peer EXCEPT !.calls = cs, !.created = created, !.i = @ + 1,
                      !.pc = "fs_check"]

\* check_folder_exists for the current level of the second call
PeerCheck ==
    /\ peer.pc = "fs_check"
    /\ LET level == Levels(req)[peer.i]
       IN  \E status \in CheckOutcomes(level.path) :
              LET cs == Append(peer.calls,
                               Call("GET", level.path, NoHeaders, <<>>, status))
              IN  /\ faults' = IF IsFault(status) THEN faults + 1 ELSE faults
                  /\ peer' = IF check_folder_exists(status)
                             THEN PeerAdvance(cs, peer.created)
                             ELSE [peer EXCEPT !.calls = cs, !.pc = "fs_create"]
    /\ UNCHANGED <<pc, req, aemTimeout, session, calls, pages, folders, local,
                   resp, prev, copying>>

\* create_dam_folder for the current level of the second call
PeerCreate ==
    /\ peer.pc = "fs_create"
    /\ LET level == Levels(req)[peer.i]
       IN  \E status \in CreateOutcomes(level.path) :
              LET cs == Append(peer.calls,
                               Call("POST", level.path, NoHeaders,
                                    folder_data(level.kind), status))
              IN  /\ faults' = IF IsFault(status) THEN faults + 1 ELSE faults
                  /\ folders' = IF RepoApplies(status)
                                THEN folders \cup {level.path} ELSE folders
                  /\ peer' = IF create_dam_folder(status)
                             THEN PeerAdvance(cs, Append(peer.created, level.path))
                             ELSE [peer EXCEPT !.calls = cs, !.pc = "done",
                                               !.fs = FolderFailure(level)]
    /\ UNCHANGED <<pc, req, aemTimeout, session, calls, pages, local, resp,
                   prev, copying>>

\* every folder call of the request came back as a working repository
\* answers: a check with 200 or 404, a create with 200 or 201
AllCallsSucceeded(cs) ==
    \A k \in 1..Len(cs) :
        \/ cs[k].url = TokenUrl
        \/ cs[k].method = "GET" /\ cs[k].status \in {200, 404}
        \/ cs[k].method = "POST" /\ cs[k].status \in {200, 201}

\* what the next call can know of the one before it
Previous(r, result, succeeded) ==
    [ep |-> r.ep, req |-> r, result |-> result, succeeded |-> succeeded]

----------------------------------------------------------------------------
(* aem_utils.py: create_experience_fragments *)

IsLetter(c) ==
    \E j \in 1..Len(UpperCase) : UpperCase[j] = c \/ LowerCase[j] = c

\* str.title(): a letter that follows no letter is upper-cased, every other
\* letter lower-cased
title(str) ==
    [i \in 1..Len(str) |->
        IF i = 1 \/ ~IsLetter(str[i - 1])
        THEN upper(<<str[i]>>)[1]
        ELSE lower(<<str[i]>>)[1]]

TemplatesDir == "/content/dam/commercial/mava-international/templates/"

\* xf_templates: the name of each fragment, its template asset and the
\* prefix of its title, in the order the dict is walked
xf_templates ==
    << [name |-> "header", asset_path |-> <<TemplatesDir, "header.html">>,
        title |-> <<"Header - ">>],
       [name |-> "footer", asset_path |-> <<TemplatesDir, "footer.html">>,
        title |-> <<"Footer - ">>],
       [name |-> "login-footer", asset_path |-> <<TemplatesDir, "loginfooter.html">>,
        title |-> <<"Login Footer - ">>],
       [name |-> "popup", asset_path |-> <<TemplatesDir, "404.html">>,
        title |-> <<"Popup - ">>],
       [name |-> "profile", asset_path |-> <<TemplatesDir, "profile.html">>,
        title |-> <<"Profile - ">>] >>

XfNames == {xf_templates[k].name : k \in 1..Len(xf_templates)}

\* f"{base_xf_path}/{market}"
xf_folder_path(r) == r.base_xf_path \o <<"/">> \o r.market

\* xf_config["xf_path"]
xf_path(r, k) == xf_folder_path(r) \o <<"/", xf_templates[k].name>>

\* xf_config["title"]
xf_title(r, k) == xf_templates[k].title \o title(r.market)

\* asset_url of get_asset_content: the DAM root in front of the asset path
asset_url(asset_path) == <<"/content/dam">> \o asset_path

\* what the repository answers to the GET of a template asset: the text of
\* the asset ("" for an empty file), or no such asset, or the call fails in
\* transport
AssetReplies ==
    {[status |-> 200, text |-> t] : t \in {"<html>", ""}}
        \cup {[status |-> 404, text |-> ""]}
        \cup (IF faults < MaxFaults THEN {[status |-> ConnectError, text |-> ""]}
              ELSE {})

NoHtml == "None"

\* get_asset_content: the text of a 200 answer, None otherwise
get_asset_content(reply) == IF reply.status = 200 THEN reply.text ELSE NoHtml

\* folder_data of ensure_xf_folder_exists
xf_folder_data(r) ==
    [k \in {"jcr:primaryType", "jcr:title", "_charset_"} |->
        CASE k = "jcr:primaryType" -> "sling:Folder"
          [] k = "jcr:title" -> title(r.market)
          [] k = "_charset_" -> "utf-8"]

\* xf_data of create_experience_fragment (the page type, the title, the
\* text component holding the template, the charset)
xf_data(xf_title_, html_content, fragment_type) ==
    [k \in {"jcr:primaryType", "jcr:content/jcr:title", "text", "type", "_charset_"} |->
        CASE k = "jcr:primaryType" -> "cq:Page"
          [] k = "jcr:content/jcr:title" -> xf_title_
          [] k = "text" -> html_content
          [] k = "type" -> fragment_type
          [] k = "_charset_" -> "utf-8"]

\* what the repository answers to the POST of a fragment: it creates the
\* page (201) or rejects the POST (500), or the call fails in transport
XfPostOutcomes ==
    {201, 500} \cup (IF faults < MaxFaults THEN {ConnectError} ELSE {})

\* create_experience_fragment: True iff the POST answered 200 or 201
create_experience_fragment(status) == status \in {200, 201}

\* the entries of results
XfSuccess(r, k) ==
    [success |-> TRUE, path |-> xf_path(r, k), error |-> "none"]
XfTemplateNotFound(k) ==
    [success |-> FALSE, path |-> NoPath, error |-> "Template not found"]
XfCreateFailed(k) ==
    [success |-> FALSE, path |-> NoPath, error |-> "Failed to create experience fragment"]

\* results[xf_name] = entry
XfPut(results, name, entry) == (name :> entry) @@ results

\* a summary that calls the run a success when any fragment was created
XfSummaryAnySuccess(results) ==
    LET successful_count == Cardinality({n \in DOMAIN results : results[n].success})
        total_count == Len(xf_templates)
    IN  XfOutcome(successful_count > 0, results, total_count,
                  successful_count, total_count - successful_count)

\* the dict returned after the loop
XfSummary(results) ==
    LET successful_count == Cardinality({n \in DOMAIN results : results[n].success})
        total_count == Len(xf_templates)
    IN  XfOutcome(successful_count = total_count, results, total_count,
                  successful_count, total_count - successful_count)

XfMarkets == {<<"u", "k">>, <<"n", "Z">>}
XfBasePaths == {<<"/content/experience-fragments">>}
XfRequests ==
    [ep : {"experience-fragments"}, market : XfMarkets, base_xf_path : XfBasePaths]

\* create_experience_fragments is called with an open client
XfStart(r) ==
    /\ pc = "idle"
    /\ req' = r
    /\ local' = [local EXCEPT !.i = 1, !.xf = NoXf]
    /\ pc' = "xf_asset"
    /\ UNCHANGED <<aemTimeout, session, calls, pages, folders, resp, prev, faults, copying, peer>>

\* after the entry of fragment i is in results: the next fragment, or the
\* summary
XfAdvance(results) ==
    IF local.i = Len(xf_templates)
    THEN /\ local' = [local EXCEPT !.xf.results = results,
                                   !.xf.out = XfSummary(results)]
         /\ pc' = "done"
    ELSE /\ local' = [local EXCEPT !.xf.results = results, !.i = @ + 1]
         /\ pc' = "xf_asset"

\* step 1: fetch the template; a missing template is the fragment's entry
\* and the loop continues
XfAsset ==
    /\ pc = "xf_asset"
    /\ \E reply \in AssetReplies :
          LET html_template == get_asset_content(reply)
              url == asset_url(xf_templates[local.i].asset_path)
          IN  /\ calls' = Append(calls, Call("GET", url, NoHeaders, <<>>, reply.status))
              /\ faults' = IF IsFault(reply.status) THEN faults + 1 ELSE faults
              /\ IF html_template = NoHtml \/ html_template = ""
                 THEN XfAdvance(XfPut(local.xf.results, xf_templates[local.i].name,
                                      XfTemplateNotFound(local.i)))
                 ELSE /\ local' = [local EXCEPT !.xf.html = html_template,
                                                !.xf.ensured = "unset"]
                      /\ pc' = "xf_check"
    /\ UNCHANGED <<req, aemTimeout, session, pages, folders, resp, prev, copying, peer>>

\* step 2, ensure_xf_folder_exists: the existence check; an exception makes
\* it return False without a create
XfCheck ==
    /\ pc = "xf_check"
    /\ \E status \in CheckOutcomes(xf_folder_path(req)) :
          /\ calls' = Append(calls, Call("GET", xf_folder_path(req), NoHeaders,
                                         <<>>, status))
          /\ faults' = IF IsFault(status) THEN faults + 1 ELSE faults
          /\ IF status = 200
             THEN /\ local' = [local EXCEPT !.xf.ensured = "True"]
                  /\ pc' = "xf_post"
             ELSE IF status = ConnectError
             THEN /\ local' = [local EXCEPT !.xf.ensured = "False"]
                  /\ pc' = "xf_post"
             ELSE /\ local' = local
                  /\ pc' = "xf_mkdir"
    /\ UNCHANGED <<req, aemTimeout, session, pages, folders, resp, prev, copying, peer>>

\* step 2, ensure_xf_folder_exists: the create; what it returns is dropped
\* and step 3 follows either way
XfMkdir ==
    /\ pc = "xf_mkdir"
    /\ \E status \in CreateOutcomes(xf_folder_path(req)) :
          /\ calls' = Append(calls, Call("POST", xf_folder_path(req), NoHeaders,
                                         xf_folder_data(req), status))
          /\ faults' = IF IsFault(status) THEN faults + 1 ELSE faults
          /\ folders' = IF RepoApplies(status) THEN folders \cup {xf_folder_path(req)}
                        ELSE folders
          /\ local' = [local EXCEPT !.xf.ensured =
                          IF status \in {200, 201} THEN "True" ELSE "False"]
    /\ pc' = "xf_post"
    /\ UNCHANGED <<req, aemTimeout, session, pages, resp, prev, copying, peer>>

\* step 3, create_experience_fragment, and the fragment's entry in results
XfPost ==
    /\ pc = "xf_post"
    /\ \E status \in XfPostOutcomes :
          LET k == local.i
              name == xf_templates[k].name
              entry == IF create_experience_fragment(status)
                       THEN XfSuccess(req, k) ELSE XfCreateFailed(k)
          IN  /\ calls' = Append(calls, Call("POST", xf_path(req, k), NoHeaders,
                                  xf_data(xf_title(req, k), local.xf.html, name), status))
              /\ faults' = IF status = ConnectError THEN faults + 1 ELSE faults
              /\ XfAdvance(XfPut(local.xf.results, name, entry))
    /\ UNCHANGED <<req, aemTimeout, session, pages, folders, resp, prev, copying, peer>>

----------------------------------------------------------------------------
(* Steps of the handlers *)

\* AEMClient() raises when AEM_TIMEOUT is unset (int(None)): the handler's
\* except clause turns it into a 500 before any session exists; the except
\* clause of aem_health returns its unhealthy dict instead
ConstructFails(r) ==
    /\ pc = "idle"
    /\ ~aemTimeout
    /\ req' = r
    /\ resp' = IF r.ep = "health-aem" THEN HealthError
               ELSE HTTPException(HTTP_500, "Failed")
    /\ pc' = "done"
    /\ UNCHANGED <<aemTimeout, session, calls, pages, folders, local, prev, faults, copying, peer>>

FirstStep(ep) ==
    CASE ep = "create-error-pages" -> "cep_404"
      [] ep \in {"protected-page", "create-login-page", "modify-locale"} -> "update"
      [] ep = "duplicate-template" -> "dt_probe"
      [] ep = "list-pages" -> "ls_probe"
      [] ep = "get-protected-page" -> "gp_read"
      [] ep = "health-aem" -> "h_probe"

\* async with AEMClient() as aem: construct the client, fetch the token
Open(r) ==
    /\ pc = "idle"
    /\ aemTimeout
    /\ \E reply \in TokenReplies :
          /\ session' = aenter(reply)
          /\ calls' = <<[Call("GET", TokenUrl, NoHeaders, <<>>, reply.status)
                            EXCEPT !.body = reply.token]>>
    /\ req' = r
    /\ pc' = FirstStep(r.ep)
    /\ UNCHANGED <<aemTimeout, pages, folders, local, resp, prev, faults, copying, peer>>

\* create_error_pages: the 404 page
ErrorPage404 ==
    /\ pc = "cep_404"
    /\ \E status \in Outcomes :
          LET path == req.page_path_404
              payload == req.jcr_content_404
          IN  /\ local' = [local EXCEPT !.r1 = HelperResult("error", path, payload, status),
                                        !.m1 = CallerPayloadAfter("error", payload)]
              /\ calls' = HelperCalls("error", path, payload, status)
              /\ pages' = HelperPages("error", path, payload, status)
    /\ pc' = "cep_500"
    /\ UNCHANGED <<req, aemTimeout, session, folders, resp, prev, faults, copying, peer>>

\* create_error_pages: the 500 page, then the aggregate response
ErrorPage500 ==
    /\ pc = "cep_500"
    /\ \E status \in Outcomes :
          LET path == req.page_path_500
              payload == req.jcr_content_500
              result_500 == HelperResult("error", path, payload, status)
          IN  /\ local' = [local EXCEPT !.r2 = result_500,
                                        !.m2 = CallerPayloadAfter("error", payload),
                                        !.out = ErrorPagesResponse(local.r1, result_500)]
              /\ calls' = HelperCalls("error", path, payload, status)
              /\ pages' = HelperPages("error", path, payload, status)
    /\ pc' = "exit"
    /\ UNCHANGED <<req, aemTimeout, session, folders, resp, prev, faults, copying, peer>>

\* create_protected_page / create_login_page_endpoint / modify_site_locale:
\* the one helper call inside the session block
UpdatePage ==
    /\ pc = "update"
    /\ \E status \in Outcomes :
          LET helper == HelperOf(req.ep)
              result == HelperResult(helper, req.page_path, req.jcr_content, status)
          IN  /\ local' = [local EXCEPT !.r1 = result, !.out = PageResponse(result),
                                        !.m1 = CallerPayloadAfter(helper, req.jcr_content)]
              /\ calls' = HelperCalls(helper, req.page_path, req.jcr_content, status)
              /\ pages' = HelperPages(helper, req.page_path, req.jcr_content, status)
    /\ pc' = "exit"
    /\ UNCHANGED <<req, aemTimeout, session, folders, resp, prev, faults, copying, peer>>

\* leaving the session block, by return or by exception: __aexit__ closes the
\* client, then the handler's outcome reaches the caller
Close ==
    /\ pc = "exit"
    /\ session' = aexit(session)
    /\ resp' = local.out
    /\ pc' = "done"
    /\ UNCHANGED <<req, aemTimeout, calls, pages, folders, local, prev, faults, copying, peer>>

\* the next request arrives: a new handler invocation starts from nothing;
\* a copy is followed no further than the request that asked for it
NextRequest ==
    /\ pc = "done"
    /\ peer.pc \in {"none", "done"}
    /\ peer' = NoPeer
    /\ pc' = "idle"
    /\ session' = NoSession
    /\ calls' = <<>>
    /\ local' = NoLocals
    /\ resp' = NoResponse
    /\ req' = NoRequest
    /\ prev' = IF req.ep = "folder-structure"
               THEN Previous(req, local.fs, AllCallsSucceeded(calls))
               ELSE prev
    /\ copying' = {}
    /\ UNCHANGED <<aemTimeout, pages, folders, faults>>

Init ==
    /\ pc = "idle"
    /\ req = NoRequest
    /\ aemTimeout \in BOOLEAN
    /\ session = NoSession
    /\ calls = <<>>
    /\ pages = [p \in PagePaths |-> <<>>]
    /\ folders = {}
    /\ local = NoLocals
    /\ resp = NoResponse
    /\ prev = NoPrev
    /\ faults = 0
    /\ copying = {}
    /\ peer = NoPeer

Requests ==
    ErrorPageRequests \cup PageRequests \cup DuplicateRequests \cup ListRequests
        \cup GetRequests \cup HealthRequests

Next ==
    \/ \E r \in Requests : ConstructFails(r)
    \/ \E r \in Requests : Open(r)
    \/ ErrorPage404
    \/ ErrorPage500
    \/ UpdatePage
    \/ Probe
    \/ DuplicateCopy
    \/ CopyCompletes
    \/ DuplicateUpdate
    \/ ListRead
    \/ GetRead
    \/ Close
    \/ NextRequest

Spec == Init /\ [][Next]_vars

\* the folder operations alone, one call after another on one repository
NextFolders ==
    \/ \E r \in FolderRequests : FolderStart(r)
    \/ FolderCheck
    \/ FolderCreate
    \/ NextRequest

SpecFolders == Init /\ [][NextFolders]_vars

----------------------------------------------------------------------------
(* upload_images.py: upload_file_to_dam and upload_files_to_dam *)

image_extensions ==
    { <<".","j","p","g">>, <<".","j","p","e","g">>, <<".","p","n","g">>,
      <<".","g","i","f">>, <<".","s","v","g">>, <<".","w","e","b","p">>,
      <<".","b","m","p">>, <<".","t","i","f","f">>, <<".","i","c","o">> }
pdf_extensions == { <<".","p","d","f">> }

allowed_extensions(file_type) ==
    IF file_type = "image" THEN image_extensions ELSE pdf_extensions

\* filename.split('.')[-1]
RECURSIVE LastPart(_)
LastPart(name) ==
    IF name = <<>> \/ name[Len(name)] = "." THEN <<>>
    ELSE Append(LastPart(SubSeq(name, 1, Len(name) - 1)), name[Len(name)])

\* '.' + filename.split('.')[-1].lower() if '.' in filename else ''
file_extension(name) ==
    IF \E k \in 1..Len(name) : name[k] = "."
    THEN <<".">> \o lower(LastPart(name))
    ELSE <<>>

dam_root == "/content/dam"

\* the url the file is posted to: the path is put under the DAM root unless
\* it starts with it, leading slashes removed
RECURSIVE lstrip(_)
lstrip(path) ==
    IF path # <<>> /\ Head(path) = "/" THEN lstrip(Tail(path)) ELSE path

upload_url(dam_path) ==
    (IF Head(dam_path) = dam_root THEN dam_path
     ELSE <<dam_root, "/">> \o lstrip(dam_path)) \o <<".createasset.html">>

\* what the repository answers to the POST of a file
UploadOutcomes ==
    {200, 201} \cup (IF faults < MaxFaults THEN {500, ConnectError} ELSE {})

\* the dict upload_file_to_dam returns for one file: a file of a type that
\* is not allowed is refused before any request; an accepted one is
\* uploaded iff the POST is answered 200 or 201
upload_file_to_dam(file, valid, status) ==
    [success |-> valid /\ status \in {200, 201}, filename |-> file,
     posted |-> valid]

Png == <<"a", ".", "P", "N", "G">>
Gif == <<"b", ".", "g", "i", "f">>
Pdf == <<"x", ".", "p", "d", "f">>
Txt == <<"r", "e", "a", "d", "m", "e">>

\* the arguments of upload_files_to_dam; an empty list stands for None or
\* [], an empty path for None or '' (the code tests only their truth)
UploadRequests ==
    [ep : {"upload-files"},
     images : {<<>>, <<Png>>, <<Png, Gif>>, <<Png, Txt>>},
     images_path : {<<>>, <<dam_root, "/mava/India/En/HCP/Images">>},
     pdfs : {<<>>, <<Pdf>>, <<Pdf, Png>>},
     pdfs_path : {<<>>, <<"/", "mava/India/En/HCP/PDFs">>}]

\* the dict returned after the two loops
upload_files_result(r, up) ==
    IF r.images = <<>> /\ r.pdfs = <<>>
    THEN [NoUploadResult EXCEPT !.message = "No files provided for upload"]
    ELSE [success |-> up.total_failed = 0,
          message |-> IF up.total_successful + up.total_failed > 0
                      THEN "joined" ELSE "No files uploaded",
          has_totals |-> TRUE,
          total_successful |-> up.total_successful,
          total_failed |-> up.total_failed,
          uploaded_images |-> up.uploaded_images,
          uploaded_pdfs |-> up.uploaded_pdfs]

\* the loop that runs after `after`: the images loop if images and
\* images_path, the pdfs loop if pdfs and pdfs_path, else the return
UploadPhase(r, after) ==
    IF after = "start" /\ r.images # <<>> /\ r.images_path # <<>>
    THEN "up_images"
    ELSE IF after # "up_pdfs" /\ r.pdfs # <<>> /\ r.pdfs_path # <<>>
         THEN "up_pdfs" ELSE "done"

UploadEnter(r, after, up) ==
    LET phase == UploadPhase(r, after)
    IN  /\ pc' = phase
        /\ local' = [local EXCEPT !.i = 1, !.up =
               IF phase = "done"
               THEN [up EXCEPT !.out = upload_files_result(r, up)]
               ELSE up]

\* upload_files_to_dam is called with an open client
UploadStart(r) ==
    /\ pc = "idle"
    /\ req' = r
    /\ UploadEnter(r, "start", NoUpload)
    /\ UNCHANGED <<aemTimeout, session, calls, pages, folders, resp, prev, faults,
                   copying, peer>>

\* one turn of the images loop or of the pdfs loop: upload_file_to_dam for
\* the current file, its result appended and counted
UploadFile ==
    /\ pc \in {"up_images", "up_pdfs"}
    /\ LET images == pc = "up_images"
           files == IF images THEN req.images ELSE req.pdfs
           dam_path == IF images THEN req.images_path ELSE req.pdfs_path
           file == files[local.i]
           valid == file_extension(file)
                        \in allowed_extensions(IF images THEN "image" ELSE "pdf")
       IN  \E status \in (IF valid THEN UploadOutcomes ELSE {ConnectError}) :
             LET result == upload_file_to_dam(file, valid, status)
                 counted == [local.up EXCEPT
                       !.total_successful = IF result.success THEN @ + 1 ELSE @,
                       !.total_failed = IF result.success THEN @ ELSE @ + 1]
                 up == IF images
                       THEN [counted EXCEPT !.uploaded_images = Append(@, result)]
                       ELSE [counted EXCEPT !.uploaded_pdfs = Append(@, result)]
             IN  /\ calls' = IF valid
                             THEN Append(calls, Call("POST", upload_url(dam_path),
                                      NoHeaders, [k \in {"_charset_"} |-> "utf-8"],
                                      status))
                             ELSE calls
                 /\ faults' = IF valid /\ IsFault(status) THEN faults + 1 ELSE faults
                 /\ IF local.i < Len(files)
                    THEN /\ local' = [local EXCEPT !.i = @ + 1, !.up = up]
                         /\ pc' = pc
                    ELSE UploadEnter(req, pc, up)
    /\ UNCHANGED <<req, aemTimeout, session, pages, folders, resp, prev, copying, peer>>

\* upload_files_to_dam alone, one call after another
NextUpload ==
    \/ \E r \in UploadRequests : UploadStart(r)
    \/ UploadFile
    \/ NextRequest

SpecUpload == Init /\ [][NextUpload]_vars

----------------------------------------------------------------------------
(* main.py: get_app and the invoke_* functions *)

\* str.strip() on a text whose blanks are separate elements
RECURSIVE strip(_)
strip(str) ==
    IF str # <<>> /\ Head(str) = " " THEN strip(Tail(str))
    ELSE IF str # <<>> /\ str[Len(str)] = " "
         THEN strip(SubSeq(str, 1, Len(str) - 1))
         ELSE str

available_endpoints ==
    << "duplicate-template", "list-pages", "health", "aem",
       "create-error-pages", "error-pages", "protected-page", "get-protected-page",
       "create-hcp-modal-popup", "hcp-modal-popup", "create-login-page", "login-page" >>

\* the if/elif chain: the endpoint is one of the twelve names
Routes(endpoint) ==
    /\ Len(endpoint) = 1
    /\ \E k \in 1..Len(available_endpoints) : available_endpoints[k] = endpoint[1]

\* the handlers whose run is followed request by request
FollowedHandlers ==
    {"duplicate-template", "list-pages", "aem", "create-error-pages",
     "protected-page", "get-protected-page", "create-login-page"}

\* the ways an endpoint name is written in a payload
EndpointTexts ==
    UNION {{<<name>>, <<"/", name>>, <<" ", "/", "/", name, " ">>,
            <<"/", " ", name>>, <<name, "/">>} :
               name \in {available_endpoints[k] : k \in 1..Len(available_endpoints)}}
        \cup {<<>>, <<"Health">>, <<"upload-files">>}

\* payloads: the endpoint entry is a text or None; the request body is one
\* the request model of the endpoint accepts, or one it rejects
AppPayloads ==
    {p \in [endpoint : [is_str : {TRUE}, text : EndpointTexts]
                          \cup {[is_str |-> FALSE, text |-> <<>>]},
            body_ok : BOOLEAN] :
        LET endpoint == lstrip(strip(p.endpoint.text))
        IN  (p.body_ok /\ Routes(endpoint)) =>
                endpoint[1] \in FollowedHandlers \cup {"health"}}

\* the request object an invoke_* function builds from an accepted body
RequestFor(name) ==
    CHOOSE r \in Requests : r.ep = IF name = "aem" THEN "health-aem" ELSE name

\* an invoke_* function that lets an HTTPException of its handler through
invoke_NoExceptForHTTPException(response) ==
    IF response.http = HTTP_200
    THEN [raised |-> FALSE,
          result |-> Envelope(Data("body", "body", "none", <<>>, response))]
    ELSE [raised |-> TRUE, result |-> NoEnvelope]

\* the end of an invoke_* function: the handler's body as data, or the
\* except clause for anything the handler raised
invoke(response) ==
    [raised |-> FALSE,
     result |->
        IF response.http = HTTP_200
        THEN Envelope(Data("body", "body", "none", <<>>, response))
        ELSE Envelope(Data("failure", "False", response.message, <<>>, NoResponse))]

\* get_app up to the call of the handler: the request handed to the handler,
\* or the dict returned without one
get_app(p) ==
    IF ~p.endpoint.is_str
    THEN [request |-> NoRequest,
          result |-> Envelope(Data("exception", "absent", "AttributeError",
                                   <<>>, NoResponse))]
    ELSE LET endpoint == lstrip(strip(p.endpoint.text))
         IN  IF ~Routes(endpoint)
             THEN [request |-> NoRequest,
                   result |-> Envelope(Data("unknown", "absent", "Unknown endpoint",
                                            available_endpoints, NoResponse))]
             ELSE IF endpoint[1] = "health"
             THEN [request |-> NoRequest,
                   result |-> Envelope(Data("body", "body", "none", <<>>,
                                 Response(HTTP_200, TRUE, "healthy", NoPath, NoErr)))]
             ELSE IF endpoint[1] # "aem" /\ ~p.body_ok
             THEN [request |-> NoRequest,
                   result |-> Envelope(Data("failure", "False", "ValidationError",
                                            <<>>, NoResponse))]
             ELSE [request |-> RequestFor(endpoint[1]), result |-> NoEnvelope]

\* get_app is called: it returns at once, or it calls the handler
GetApp(p) ==
    /\ pc = "idle"
    /\ local.app = NoApp
    /\ LET g == get_app(p)
       IN  /\ local' = [local EXCEPT !.app =
                  [payload |-> p, request |-> g.request,
                   returned |-> g.request = NoRequest, raised |-> FALSE,
                   result |-> g.result]]
           /\ pc' = IF g.request = NoRequest THEN "done" ELSE "idle"
    /\ UNCHANGED <<req, aemTimeout, session, calls, pages, folders, resp, prev,
                   faults, copying, peer>>

\* the handler has ended: the invoke_* function returns to get_app, which
\* returns the same dict
AppReturn ==
    /\ pc = "done"
    /\ ~local.app.returned
    /\ local.app.request # NoRequest
    /\ LET e == invoke(resp)
       IN  local' = [local EXCEPT !.app.returned = TRUE,
                                  !.app.raised = e.raised,
                                  !.app.result = e.result]
    /\ UNCHANGED <<pc, req, aemTimeout, session, calls, pages, folders, resp, prev,
                   faults, copying, peer>>

\* get_app calls, one after another; the handler runs with the request
\* get_app built
NextApp ==
    \/ \E p \in AppPayloads : GetApp(p)
    \/ \E r \in Requests : local.app.request = r /\ ConstructFails(r)
    \/ \E r \in Requests : local.app.request = r /\ Open(r)
    \/ ErrorPage404
    \/ ErrorPage500
    \/ UpdatePage
    \/ Probe
    \/ DuplicateCopy
    \/ CopyCompletes
    \/ DuplicateUpdate
    \/ ListRead
    \/ GetRead
    \/ Close
    \/ AppReturn
    \/ local.app.returned /\ NextRequest

SpecApp == Init /\ [][NextApp]_vars

\* two concurrent folder calls with the same arguments on a repository that
\* holds none of the folders yet
NextRace ==
    \/ \E r \in RaceRequests : RaceStart(r)
    \/ FolderCheck
    \/ FolderCreate
    \/ PeerCheck
    \/ PeerCreate

SpecRace == Init /\ [][NextRace]_vars

\* the duplicate-template endpoint alone, over every bounded market region
NextSanitize ==
    \/ \E r \in SanitizeRequests : ConstructFails(r)
    \/ \E r \in SanitizeRequests : Open(r)
    \/ Probe
    \/ DuplicateCopy
    \/ DuplicateUpdate
    \/ Close
    \/ NextRequest

SpecSanitize == Init /\ [][NextSanitize]_vars

\* create_experience_fragments alone, one call after another on one
\* repository
NextXf ==
    \/ \E r \in XfRequests : XfStart(r)
    \/ XfAsset
    \/ XfCheck
    \/ XfMkdir
    \/ XfPost
    \/ NextRequest

SpecXf == Init /\ [][NextXf]_vars

----------------------------------------------------------------------------
(* The remote calls of a request *)

IsPost(c) == c.method = "POST"
Posts(cs) == SelectSeq(cs, IsPost)
LastCall == calls[Len(calls)]

SinglePageEndpoints == {"protected-page", "create-login-page", "modify-locale"}

\* the charset directive of a POST's form data
HasCharset(c) == "_charset_" \in DOMAIN c.data /\ c.data["_charset_"] = "utf-8"

----------------------------------------------------------------------------
(* C1 *)

\* a helper that was given a non-empty payload has just come back: the error
\* helper for the 404 page, the error helper for the 500 page, or the helper
\* of a one-page endpoint; its write is the last call of the request
WroteFirst ==
    \/ pc = "cep_500" /\ Truthy(req.jcr_content_404)
    \/ pc = "exit" /\ req.ep \in SinglePageEndpoints /\ Truthy(req.jcr_content)
WroteSecond ==
    pc = "exit" /\ req.ep = "create-error-pages" /\ Truthy(req.jcr_content_500)
FirstPath ==
    IF req.ep = "create-error-pages" THEN req.page_path_404 ELSE req.page_path

\* C1 as claimed: a page-update helper called with a non-empty payload
\* returns success=true and the target path whenever its write came back
\* with any 2xx status.
C1_Any2xxIsSuccess ==
    /\ WroteFirst /\ LastCall.status \in 200..299
          => local.r1.success /\ local.r1.path = FirstPath
    /\ WroteSecond /\ LastCall.status \in 200..299
          => local.r2.success /\ local.r2.path = req.page_path_500

\* C1 amended: a page-update helper called with a non-empty payload returns
\* success=true and the target path whenever its write came back with status
\* 200 or 201.
C1_Status200Or201IsSuccess ==
    /\ WroteFirst /\ LastCall.status \in {200, 201}
          => local.r1.success /\ local.r1.path = FirstPath
    /\ WroteSecond /\ LastCall.status \in {200, 201}
          => local.r2.success /\ local.r2.path = req.page_path_500

C1_Witness ==
    /\ pc = "exit" /\ req.ep = "protected-page" /\ Truthy(req.jcr_content)
    /\ LastCall.status = 201 /\ LastCall.url = req.page_path
    /\ local.r1.success /\ local.r1.path = req.page_path

----------------------------------------------------------------------------
(* C2 *)

MissingContent(result, path) ==
    /\ ~result.success /\ ~result.skipped
    /\ result.error.text = "No JCR content provided"
    /\ result.path = path

\* C2 as claimed: a page-update request whose payload is empty or absent ends
\* in a failure result, and no network call is issued during the request.
C2_FailsWithZeroCalls ==
    /\ pc = "done" /\ req.ep \in SinglePageEndpoints /\ session.opened = 1
          /\ ~Truthy(req.jcr_content)
          => ~local.r1.success /\ Len(calls) = 0
    /\ pc = "done" /\ req.ep = "create-error-pages" /\ session.opened = 1
          /\ ~Truthy(req.jcr_content_404) /\ ~Truthy(req.jcr_content_500)
          => ~local.r1.success /\ ~local.r2.success /\ Len(calls) = 0

\* C2 amended: a page-update helper given an empty or absent payload issues
\* no request, so the only network call of such a request is the token fetch
\* of the session's open; the error, protected and login helpers, and the
\* locale helper given an empty mapping, return a failure result that names
\* the missing content and the target path; the locale helper given an
\* absent payload returns success=true with skipped=true.
C2_NoWriteOnMissingContent ==
    /\ pc = "done" /\ req.ep \in SinglePageEndpoints /\ session.opened = 1
          /\ ~Truthy(req.jcr_content)
          => /\ Len(calls) = 1 /\ calls[1].method = "GET" /\ calls[1].url = TokenUrl
             /\ IF req.ep = "modify-locale" /\ ~req.jcr_content.present
                THEN local.r1.success /\ local.r1.skipped
                ELSE MissingContent(local.r1, req.page_path)
    /\ pc = "done" /\ req.ep = "create-error-pages" /\ session.opened = 1
          => /\ ~Truthy(req.jcr_content_404)
                   => MissingContent(local.r1, req.page_path_404)
             /\ ~Truthy(req.jcr_content_500)
                   => MissingContent(local.r2, req.page_path_500)
             /\ Len(calls) = 1 + (IF Truthy(req.jcr_content_404) THEN 1 ELSE 0)
                               + (IF Truthy(req.jcr_content_500) THEN 1 ELSE 0)
             /\ calls[1].url = TokenUrl

C2_Witness ==
    /\ pc = "done" /\ req.ep = "protected-page" /\ req.jcr_content = EmptyPayload
    /\ Len(calls) = 1 /\ ~resp.success
    /\ resp.error.text = "No JCR content provided"

----------------------------------------------------------------------------
(* C3 *)

\* C3 as claimed: every POST the system issues carries the CSRF-Token header
\* when the session holds a token and the X-Requested-With: XMLHttpRequest
\* header otherwise, and its form data contains _charset_=utf-8.
C3_AllWritesCarrySecurityHeader ==
    \A k \in 1..Len(calls) :
        IsPost(calls[k]) =>
            /\ calls[k].headers = get_headers(session.token)
            /\ HasCharset(calls[k])

----------------------------------------------------------------------------
(* C4 *)

\* every property of the payload is stored at the page
Applied(path, payload) ==
    \A k \in DOMAIN payload.map \ {"_charset_"} :
        k \in DOMAIN pages[path] /\ pages[path][k] = payload.map[k]

\* the POSTs of a create-error-pages request are the helper's own writes, in
\* order: nothing is written to undo an earlier write
OnlyTheTwoWrites ==
    LET want404 == IF Truthy(req.jcr_content_404)
                   THEN <<[url |-> req.page_path_404,
                           data |-> WithCharset(req.jcr_content_404.map)]>>
                   ELSE <<>>
        want500 == IF Truthy(req.jcr_content_500)
                   THEN <<[url |-> req.page_path_500,
                           data |-> WithCharset(req.jcr_content_500.map)]>>
                   ELSE <<>>
        posts == Posts(calls)
    IN  /\ Len(posts) = Len(want404 \o want500)
        /\ \A k \in 1..Len(posts) :
              /\ posts[k].url = (want404 \o want500)[k].url
              /\ posts[k].data = (want404 \o want500)[k].data

\* C4: in the create-error-pages flow, when exactly one of the 404 and 500
\* writes fails, the response has success=false with the "Partial success"
\* message, the write that succeeded is still applied in the repository, and
\* no write other than the two page writes was issued.
C4_PartialSuccessKeepsWrite ==
    pc = "done" /\ req.ep = "create-error-pages" /\ session.opened = 1
        /\ local.r1.success # local.r2.success
        => /\ resp.http = HTTP_200
           /\ ~resp.success
           /\ resp.message = "Partial success: Some error page updates failed"
           /\ local.r1.success => Applied(req.page_path_404, req.jcr_content_404)
           /\ local.r2.success => Applied(req.page_path_500, req.jcr_content_500)
           /\ OnlyTheTwoWrites

C4_Witness ==
    /\ pc = "done" /\ req.ep = "create-error-pages"
    /\ local.r1.success /\ ~local.r2.success
    /\ Len(Posts(calls)) = 2 /\ Posts(calls)[2].status = 404
    /\ req.page_path_404 = req.page_path_500
    /\ Applied(req.page_path_404, req.jcr_content_404)
    /\ ~resp.success

----------------------------------------------------------------------------
(* C5 *)

\* the list-pages handler is through and its tree read was issued
ListReadDone ==
    pc = "done" /\ req.ep = "list-pages" /\ Len(calls) = 3

\* C5 as claimed: list-pages on a site path with no node (the read returns
\* 404 or an empty tree) returns a body with success=false and a non-empty
\* error_details, and raises nothing out of the handler.
C5_NoNodeIsBodyNotException ==
    ListReadDone /\ (calls[3].status = 404 \/ calls[3].body = "empty")
        => resp.http = HTTP_200 /\ ~resp.success /\ resp.error # NoErr

\* C5 amended: list-pages on a site path whose read returns an empty tree
\* returns a body with success=false and a non-empty error_details; when the
\* read fails (404, another non-2xx status, a transport error) the handler
\* raises an HTTPException with status 404, never one with status 500.
C5_EmptyIsBodyFailedReadIs404 ==
    ListReadDone =>
        /\ calls[3].body = "empty"
              => /\ resp.http = HTTP_200 /\ ~resp.success
                 /\ resp.error.text = "No content found at path"
                 /\ resp.error.url = req.site_path
        /\ raise_for_status(calls[3].status)
              => resp.http = HTTP_404 /\ ~resp.success
        /\ resp.http # HTTP_500

C5_Witness ==
    /\ ListReadDone /\ calls[3].status = 404
    /\ calls[3].url = req.site_path \o <<".infinity.json">>
    /\ resp.http = HTTP_404

----------------------------------------------------------------------------
(* C7 *)

\* C7: every session that is opened is closed exactly once, on every exit
\* path of a handler: it is open and not yet closed while the handler is
\* inside the session block, and closed once when the handler is through,
\* whether it returned a body, raised an HTTPException inside the block
\* (400 of the probe, 404 of list-pages) or raised another exception (500).
C7_SessionClosedExactlyOnce ==
    /\ session.closed <= session.opened
    /\ session.opened <= 1
    /\ pc \notin {"idle", "done"} => session.opened = 1 /\ session.closed = 0
    /\ pc = "done" => session.closed = session.opened
    /\ pc = "done" /\ Len(calls) > 0 => session.opened = 1 /\ session.closed = 1

C7_Witness ==
    /\ pc = "done" /\ req.ep = "get-protected-page"
    /\ resp.http = HTTP_500 /\ Len(calls) = 2
    /\ session.opened = 1 /\ session.closed = 1

----------------------------------------------------------------------------
(* C8 *)

DuplicateDest ==
    new_page_path(destination_parent_path, new_page_name(req.market_region))

\* duplicate_page_template has come back: the probe passed (calls[2]); the
\* copy is calls[3]; the update, when issued, is calls[4]
DuplicateRan ==
    /\ req.ep = "duplicate-template" /\ pc \in {"exit", "done"}
    /\ Len(calls) >= 3

\* C8 as claimed: duplicate_page_template issues the copy first and the
\* update on the destination only after the copy returned success; it returns
\* success=true with new_path = parent/name only if both succeeded; if the
\* copy fails no update is issued; on failure of either step it returns
\* success=false with an error that identifies the failing step; it never
\* raises.
C8_CopyThenUpdateNamesFailedStep ==
    DuplicateRan =>
        /\ IsPost(calls[3]) /\ calls[3].url = req.source_path
        /\ calls[3].data[":operation"] = <<"copy">>
        /\ Len(calls) <= 4
        /\ Len(calls) = 4 <=> ~raise_for_status(calls[3].status)
        /\ Len(calls) = 4 => IsPost(calls[4]) /\ calls[4].url = DuplicateDest
        /\ local.r1 # NoResult
        /\ local.r1.success
              <=> Len(calls) = 4 /\ ~raise_for_status(calls[4].status)
        /\ local.r1.success => local.r1.path = DuplicateDest
        /\ ~local.r1.success
              => local.r1.error.url = calls[Len(calls)].url

----------------------------------------------------------------------------
(* C9 *)

\* C9: the duplicate-template endpoint probes the connection before any
\* write: when the probe reports unreachable it fails with HTTP 400 and
\* neither the copy nor the update is issued; when the probe succeeds it
\* answers with success=true and the new path, or with success=false and the
\* error of duplicate_page_template.
C9_ProbeBeforeWrites ==
    /\ req.ep = "duplicate-template" /\ Len(calls) >= 2
          => /\ calls[2].method = "GET" /\ calls[2].url = LoginUrl
             /\ ~IsPost(calls[1])
             /\ Len(calls) > 2 => calls[2].status = 200
    /\ req.ep = "duplicate-template" /\ pc = "done" /\ session.opened = 1
          => IF calls[2].status # 200
             THEN /\ resp.http = HTTP_400
                  /\ Posts(calls) = <<>>
             ELSE /\ resp.http = HTTP_200
                  /\ \/ resp.success /\ resp.path = DuplicateDest
                     \/ /\ ~resp.success /\ resp.path = NoPath
                        /\ resp.error = local.r1.error /\ resp.error # NoErr

C9_Witness ==
    /\ req.ep = "duplicate-template" /\ pc = "done"
    /\ Len(calls) = 2 /\ calls[2].status = 404
    /\ resp.http = HTTP_400

----------------------------------------------------------------------------
(* C6 *)

\* a create_folder_structure call has returned; the call before it had the
\* same dam_path, market, locale and site and built the structure; the
\* repository kept what was created (it never removes a folder) and answered
\* every call of both without failure
SecondIdenticalCall ==
    /\ pc = "done" /\ req.ep = "folder-structure"
    /\ prev.ep = "folder-structure" /\ prev.req = req
    /\ prev.succeeded /\ prev.result.success
    /\ AllCallsSucceeded(calls)

\* C6: folder-structure creation is idempotent: when the repository keeps
\* created folders and every remote call succeeds, a second call with the
\* same dam_path, market, locale and site issues no create request and
\* returns created_folders empty, success=true and the same four path fields
\* as the first call.
C6_SecondCallCreatesNothing ==
    SecondIdenticalCall =>
        /\ Posts(calls) = <<>>
        /\ local.fs.created_folders = <<>>
        /\ local.fs.success
        /\ local.fs.hcp_images_path = prev.result.hcp_images_path
        /\ local.fs.hcp_pdfs_path = prev.result.hcp_pdfs_path
        /\ local.fs.patient_images_path = prev.result.patient_images_path
        /\ local.fs.patient_pdfs_path = prev.result.patient_pdfs_path

C6_Witness ==
    /\ SecondIdenticalCall
    /\ Len(prev.result.created_folders) = 8
    /\ Len(calls) = 8
    /\ local.fs.success /\ local.fs.patient_pdfs_path # NoPath

----------------------------------------------------------------------------
(* C10 *)

\* the copy request of duplicate-template went out: its :dest is the
\* destination path, the parent, a slash, then the page name
CopyIssued == req.ep = "duplicate-template" /\ Len(calls) >= 3
CopyDest == calls[3].data[":dest"]
DestName == SubSeq(CopyDest, 3, Len(CopyDest))

HcpNewZealand ==
    <<"h","c","p","-","n","e","w","-","z","e","a","l","a","n","d">>

\* what the claim says a character of the region becomes
Sanitized(c) == CASE c = " " -> "-" [] c = "N" -> "n" [] c = "Z" -> "z" [] OTHER -> c

\* C10: the destination page name of duplicate-template is "hcp-" followed
\* by the market region lower-cased with every space replaced by a hyphen
\* ("New Zealand" gives hcp-new-zealand): it holds no upper-case letter and
\* no space, and it, and the destination path with it, is determined by the
\* region alone.
C10_SanitizedName ==
    CopyIssued =>
        /\ CopyDest = destination_parent_path \o <<"/">> \o DestName
        /\ Len(DestName) = 4 + Len(req.market_region)
        /\ SubSeq(DestName, 1, 4) = <<"h", "c", "p", "-">>
        /\ \A i \in 1..Len(req.market_region) :
              DestName[4 + i] = Sanitized(req.market_region[i])
        /\ \A i \in 1..Len(DestName) : ~IsUpper(DestName[i]) /\ DestName[i] # " "
        /\ req.market_region = NewZealand => DestName = HcpNewZealand
        /\ Len(calls) >= 4 => calls[4].url = CopyDest
        /\ pc = "done" /\ resp.success => resp.path = CopyDest

C10_Witness ==
    /\ CopyIssued /\ req.market_region = NewZealand
    /\ pc = "done" /\ resp.success
    /\ resp.path = <<"/content/buildeasy/mava", "/">> \o HcpNewZealand

----------------------------------------------------------------------------
(* C11 *)

CommercialMava == <<"/content/commercial/mava-international">>

\* C11 as claimed: the new_template_path of a successful duplicate-template
\* response lies under /content/commercial/mava-international, the parent
\* the handler's own description gives for the new template.
C11_NewTemplateUnderCommercialMava ==
    pc = "done" /\ req.ep = "duplicate-template" /\ resp.http = HTTP_200
        /\ resp.success
        => SubSeq(resp.path, 1, 1) = CommercialMava

----------------------------------------------------------------------------
(* C12 *)

\* the response names a page: in its path or in the URL of its error
Names(response, path) == response.path = path \/ response.error.url = path

\* C12 as claimed: the error-page pair and duplicate-template report
\* success=true only if every sub-step succeeded, and whenever a sub-step
\* failed the response identifies the sub-step that failed (the page whose
\* update failed, the request of the duplication that failed).
C12_AggregateNamesFailedSubSteps ==
    /\ pc = "done" /\ req.ep = "create-error-pages" /\ session.opened = 1
          => /\ resp.success => local.r1.success /\ local.r2.success
             /\ ~local.r1.success => Names(resp, req.page_path_404)
             /\ ~local.r2.success => Names(resp, req.page_path_500)
    /\ pc = "done" /\ req.ep = "duplicate-template" /\ resp.http = HTTP_200
          => /\ resp.success =>
                   \A k \in 3..Len(calls) : ~raise_for_status(calls[k].status)
             /\ ~resp.success => Names(resp, LastCall.url)

----------------------------------------------------------------------------
(* C13 *)

\* the create request of a folder level came back without creating it
FailedCreate(c) == c.method = "POST" /\ c.status \notin {200, 201}

\* the paths of the levels up to and including level i
LevelPathsUpTo(i) == {Levels(req)[j].path : j \in 1..i}

\* C13: create_folder_structure stops at the first folder level whose create
\* request fails: that request is the last call of the function, the result
\* is success=false with an error naming that folder, no check or create was
\* issued for a later level, and every call of the function is an existence
\* check (GET) or a folder create (POST of a sling:Folder, no :operation),
\* so the levels created earlier in the call are still in the repository.
C13_StopsAtFirstFailedCreate ==
    req.ep = "folder-structure" =>
        \A k \in 1..Len(calls) :
            /\ calls[k].method \in {"GET", "POST"}
            /\ calls[k].method = "POST" =>
                  /\ ":operation" \notin DOMAIN calls[k].data
                  /\ calls[k].data["jcr:primaryType"] = "sling:Folder"
            /\ FailedCreate(calls[k]) =>
                  /\ k = Len(calls)
                  /\ pc = "done"
                  /\ ~local.fs.success
                  /\ local.fs.error_path = calls[k].url
                  /\ calls[k].url = Levels(req)[local.i].path
                  /\ \A j \in 1..Len(calls) : calls[j].url \in LevelPathsUpTo(local.i)
                  /\ \A j \in 1..Len(local.created) : local.created[j] \in folders

C13_Witness ==
    /\ pc = "done" /\ req.ep = "folder-structure"
    /\ Len(calls) = 4 /\ LastCall.method = "POST" /\ LastCall.status = 500
    /\ local.i = 2 /\ Len(local.created) = 1
    /\ local.created[1] = market_path(req) /\ market_path(req) \in folders
    /\ ~local.fs.success /\ local.fs.error_path = locale_path(req)

----------------------------------------------------------------------------
(* C14 *)

XfDone == pc = "done" /\ req.ep = "experience-fragments"

\* the create request of fragment k, as the call log shows it
IsXfPost(c, k) == c.method = "POST" /\ c.url = xf_path(req, k)

\* C14: create_experience_fragments attempts every one of the five catalog
\* fragments whatever happened to the others: when it returns, the template
\* of each fragment was fetched, results has exactly one entry per catalog
\* fragment (successful iff that fragment's create answered 200 or 201),
\* summary.successful + summary.failed = summary.total = 5, and success is
\* true iff all five entries are successful.
C14_EveryFragmentAttempted ==
    XfDone =>
        LET out == local.xf.out
        IN  /\ DOMAIN out.results = XfNames
            /\ Cardinality(XfNames) = 5
            /\ out.summary.total = 5
            /\ out.summary.successful + out.summary.failed = out.summary.total
            /\ out.summary.successful =
                  Cardinality({n \in XfNames : out.results[n].success})
            /\ out.success <=> \A n \in XfNames : out.results[n].success
            /\ \A k \in 1..Len(xf_templates) :
                  /\ \E j \in 1..Len(calls) :
                        /\ calls[j].method = "GET"
                        /\ calls[j].url = asset_url(xf_templates[k].asset_path)
                  /\ out.results[xf_templates[k].name].success <=>
                        \E j \in 1..Len(calls) :
                            IsXfPost(calls[j], k) /\ calls[j].status \in {200, 201}

\* one fragment without a template, one rejected, one whose create failed in
\* transport, two created
C14_Witness ==
    /\ XfDone
    /\ local.xf.out.results["header"].error = "Template not found"
    /\ \E j \in 1..Len(calls) : IsXfPost(calls[j], 2) /\ calls[j].status = 500
    /\ \E j \in 1..Len(calls) : IsXfPost(calls[j], 3) /\ calls[j].status = ConnectError
    /\ local.xf.out.results["popup"].success
    /\ local.xf.out.results["profile"].success
    /\ ~local.xf.out.success
    /\ local.xf.out.summary.successful = 2 /\ local.xf.out.summary.failed = 3

----------------------------------------------------------------------------
(* C15 *)

\* the call confirmed the folder: the check found it, or the create made it
FolderConfirmed(c) ==
    /\ c.url = xf_folder_path(req)
    /\ \/ c.method = "GET" /\ c.status = 200
       \/ c.method = "POST" /\ c.status \in {200, 201}

\* C15 as claimed: the create request of a fragment is issued only after the
\* folder-ensure step of that fragment (the calls right before it) confirmed
\* the destination folder or created it, and a fragment is not reported
\* successful when its folder-ensure step returned failure.
C15_FragmentOnlyAfterFolderEnsured ==
    req.ep = "experience-fragments" =>
        \A j \in 1..Len(calls) : \A k \in 1..Len(xf_templates) :
            IsXfPost(calls[j], k) =>
                /\ j > 1 /\ FolderConfirmed(calls[j - 1])
                /\ j = Len(calls) /\ local.xf.results[xf_templates[k].name].success
                      => local.xf.ensured = "True"

----------------------------------------------------------------------------
(* C16 *)

HealthDone == pc = "done" /\ req.ep = "health-aem"

\* the probe of the request, when the session got as far as issuing it
ProbeIssued == Len(calls) >= 2 /\ calls[2].url = LoginUrl

\* C16: /health/aem never raises: it always answers with a body (HTTP 200),
\* whose status is healthy iff the connectivity probe was issued and
\* answered 200, and unhealthy when the probe answered any other status,
\* failed in transport, or the session could not be constructed.
C16_HealthNeverRaises ==
    HealthDone =>
        /\ resp.http = HTTP_200
        /\ resp.message \in {"healthy", "unhealthy"}
        /\ resp.message = "healthy" <=> ProbeIssued /\ calls[2].status = 200
        /\ session.opened = 0 => resp.message = "unhealthy" /\ resp.error.text = "error"

C16_Witness ==
    /\ HealthDone /\ session.opened = 1 /\ session.closed = 1
    /\ ProbeIssued /\ calls[2].status = ConnectError
    /\ resp.http = HTTP_200 /\ resp.message = "unhealthy"
    /\ resp.error.text = "disconnected"

----------------------------------------------------------------------------
(* C17 *)

\* the probe was the last thing the request did so far
JustProbed == ProbeIssued /\ Len(calls) = 2 /\ pc # "done"

\* what test_connection returned, read off what its caller did with it
ProbeSaidConnected ==
    IF req.ep = "health-aem" THEN local.out.message = "healthy"
    ELSE local.out.http # HTTP_400

\* C17: test_connection never raises: its caller goes on with true iff the
\* GET to the login page answered 200, and with false for every other status
\* and for a call that raised; no probe leads to the 500 of the handler's
\* except clause.
C17_ProbeTrueIffStatus200 ==
    JustProbed =>
        /\ ProbeSaidConnected <=> calls[2].status = 200
        /\ local.out.http # HTTP_500

C17_Witness ==
    /\ JustProbed /\ req.ep = "list-pages" /\ calls[2].method = "GET"
    /\ calls[2].status = ConnectError
    /\ pc = "exit" /\ local.out.http = HTTP_400

----------------------------------------------------------------------------
(* C18 *)

IsTokenRequest(c) == c.url = TokenUrl

\* the token the reply to the first call of the session carried, None when
\* the fetch failed or the body had no token
TokenAtOpen ==
    IF calls[1].status \in 200..299 /\ calls[1].body # "missing"
    THEN calls[1].body ELSE NoToken

\* C18: a session's token is fetched exactly once, when the session is
\* opened, and never changes afterwards: the first call of an open session
\* is the token request and no later call is one, the session's token is at
\* all times the value obtained by that request, and every call that sends a
\* CSRF-Token header sends that value.
C18_TokenFetchedOnceAtOpen ==
    /\ session.opened = 0 => \A k \in 1..Len(calls) : ~IsTokenRequest(calls[k])
    /\ session.opened = 1 =>
          /\ Len(calls) >= 1 /\ IsTokenRequest(calls[1])
          /\ \A k \in 2..Len(calls) : ~IsTokenRequest(calls[k])
          /\ session.token = TokenAtOpen
          /\ \A k \in 1..Len(calls) :
                calls[k].headers.name = "CSRF-Token"
                    => calls[k].headers.value = TokenAtOpen

C18_Witness ==
    /\ req.ep = "duplicate-template" /\ pc = "done" /\ Len(calls) = 4
    /\ TokenAtOpen = "tokA" /\ session.token = "tokA"
    /\ calls[3].headers = Headers("CSRF-Token", "tokA")
    /\ calls[4].headers = Headers("CSRF-Token", "tokA")

----------------------------------------------------------------------------
(* C19 *)

\* the token request of the open session came back non-2xx, without a token
\* in its body, or failed in transport
TokenFetchFailed ==
    /\ session.opened = 1
    /\ calls[1].status \notin 200..299 \/ calls[1].body = "missing"

\* the operations of the request ran: the probe or read of the endpoints
\* that have one, and one write per non-empty payload of the others
OperationsRan ==
    CASE req.ep = "create-error-pages" ->
            Len(Posts(calls)) = (IF Truthy(req.jcr_content_404) THEN 1 ELSE 0)
                                  + (IF Truthy(req.jcr_content_500) THEN 1 ELSE 0)
      [] req.ep \in SinglePageEndpoints ->
            Len(Posts(calls)) = (IF Truthy(req.jcr_content) THEN 1 ELSE 0)
      [] OTHER -> Len(calls) >= 2

\* C19: opening a session never fails because of the token fetch: when the
\* token request came back non-2xx, without a token, or failed in transport,
\* the session is open with the token absent, no write sends a CSRF-Token
\* header, the operations of the request still run, and the request does not
\* end in the 500 of a failed open.
C19_OpenSurvivesTokenFailure ==
    TokenFetchFailed =>
        /\ session.token = NoToken
        /\ pc # "idle"
        /\ \A k \in 1..Len(calls) : calls[k].headers.name # "CSRF-Token"
        /\ pc = "done" =>
              /\ OperationsRan
              /\ session.closed = 1
              /\ resp.http = HTTP_500 => req.ep = "get-protected-page"

C19_Witness ==
    /\ TokenFetchFailed /\ calls[1].status = ConnectError
    /\ pc = "done" /\ req.ep = "protected-page"
    /\ Len(calls) = 2 /\ calls[2].status = 200 /\ resp.success

----------------------------------------------------------------------------
(* C20 *)

EndpointDone ==
    pc = "done" /\ req.ep \notin {"none", "folder-structure", "experience-fragments"}

\* the tree read of list-pages was issued and failed: a non-2xx answer, a
\* transport error, or a body that is no JSON object
ListReadFailed ==
    /\ req.ep = "list-pages" /\ Len(calls) = 3
    /\ raise_for_status(calls[3].status) \/ calls[3].body = "list"

\* an exception nothing in the handler body expects: the client could not
\* be constructed, or the response model rejected what was read
UnexpectedException ==
    \/ session.opened = 0
    \/ req.ep = "get-protected-page" /\ Len(calls) = 2 /\ calls[2].body = "list"

\* the outcomes the handlers report in the body: missing content, a rejected
\* write, a failed read in a get-* endpoint, a failed duplication
StructuredFailure ==
    /\ session.opened = 1
    /\ \/ req.ep \in SinglePageEndpoints \cup {"create-error-pages"}
       \/ req.ep = "get-protected-page" /\ raise_for_status(calls[2].status)
       \/ req.ep = "duplicate-template" /\ Len(calls) >= 3

StatusRules ==
    /\ resp.http \in {HTTP_200, HTTP_400, HTTP_404, HTTP_500}
    /\ resp.success => resp.http = HTTP_200
    /\ StructuredFailure => resp.http = HTTP_200
    /\ resp.http = HTTP_400 <=>
          /\ req.ep \in {"duplicate-template", "list-pages"}
          /\ Len(calls) = 2 /\ calls[2].status # 200
    /\ resp.http = HTTP_500 <=> UnexpectedException /\ req.ep # "health-aem"

----------------------------------------------------------------------------
(* C21 *)

\* the write was rejected by the repository / failed in transport
Rejected(c) == c.status # ConnectError /\ c.status \notin {200, 201}
TransportFailed(c) == c.status = ConnectError

\* the failure result carries the detail of the write error: the status (and
\* with it the response) of a rejected write, the error of a failed transport
CarriesWriteDetail(result, c) ==
    /\ Rejected(c) => result.error.status = c.status
    /\ TransportFailed(c) => result.error.text = "ConnectError"

\* C21 as claimed: a page-update write returns success iff the remote status
\* is 200 or 201 and never raises for another status; when the write is
\* rejected the helper's failure result carries the detail of the underlying
\* write error, and a transport failure is reported as a failure that can be
\* told from a rejected write.
C21_FailureCarriesWriteDetail ==
    /\ WroteFirst =>
          /\ local.r1.success <=> LastCall.status \in {200, 201}
          /\ CarriesWriteDetail(local.r1, LastCall)
    /\ WroteSecond =>
          /\ local.r2.success <=> LastCall.status \in {200, 201}
          /\ CarriesWriteDetail(local.r2, LastCall)

----------------------------------------------------------------------------
(* C22 *)

ErrorPagesFlow == req.ep = "create-error-pages" /\ session.opened = 1
Writes404 == IF Truthy(req.jcr_content_404) THEN 1 ELSE 0
Writes500 == IF Truthy(req.jcr_content_500) THEN 1 ELSE 0

\* C22: in the create-error-pages flow the two writes are strictly
\* sequential and independent: no write is out before the 404 helper runs;
\* while the 404 helper has not returned its result the 500 write is not
\* issued; once it has, the 500 helper runs whatever that result was, and
\* its write (the last call of the flow) is issued iff the 500 payload is
\* non-empty.
C22_WritesSequentialAndIndependent ==
    ErrorPagesFlow =>
        /\ pc = "cep_404" =>
              Len(Posts(calls)) = 0 /\ local.r1 = NoResult /\ local.r2 = NoResult
        /\ pc = "cep_500" =>
              /\ Len(Posts(calls)) = Writes404
              /\ local.r1 # NoResult /\ local.r2 = NoResult
        /\ pc \in {"exit", "done"} =>
              /\ Len(Posts(calls)) = Writes404 + Writes500
              /\ local.r1 # NoResult /\ local.r2 # NoResult
              /\ Writes404 = 1 =>
                    calls[2].method = "POST" /\ calls[2].url = req.page_path_404
              /\ Writes500 = 1 =>
                    /\ LastCall.method = "POST" /\ LastCall.url = req.page_path_500
                    /\ LastCall.data = WithCharset(req.jcr_content_500.map)

\* the 404 write was rejected and the 500 write went out after it
C22_Witness ==
    /\ ErrorPagesFlow /\ pc = "done" /\ Len(calls) = 3
    /\ req.page_path_404 = P404 /\ req.page_path_500 = P500
    /\ calls[2].url = P404 /\ calls[2].status = 404 /\ ~local.r1.success
    /\ calls[3].url = P500 /\ calls[3].status = 200 /\ local.r2.success

----------------------------------------------------------------------------
(* C25 *)

\* a write that did not go through: rejected, or failed in transport
FailedWrite(c) == c.method = "POST" /\ c.status \notin {200, 201}

\* C25: no retries: one invocation of a page-update helper issues at most
\* one write request whatever its outcome (the one-page endpoints issue at
\* most one POST, the error-page pair at most one per helper), and a write
\* that was rejected or failed in transport is reported as success=false in
\* the helper's result.
C25_AtMostOneWritePerHelper ==
    /\ req.ep \in SinglePageEndpoints /\ session.opened = 1 =>
          /\ Len(Posts(calls)) <= 1
          /\ Len(calls) = 2 /\ FailedWrite(calls[2]) =>
                ~local.r1.success /\ local.r1.error.text = "Failed to update page"
    /\ ErrorPagesFlow =>
          /\ pc = "cep_500" => Len(Posts(calls)) <= 1
          /\ Len(Posts(calls)) <= Writes404 + Writes500
          /\ pc \in {"cep_500", "exit", "done"} /\ Writes404 = 1
                /\ FailedWrite(calls[2]) => ~local.r1.success
          /\ pc \in {"exit", "done"} /\ Writes500 = 1 /\ FailedWrite(LastCall)
                => ~local.r2.success

C25_Witness ==
    /\ pc = "done" /\ req.ep = "protected-page" /\ session.opened = 1
    /\ Len(calls) = 2 /\ calls[2].method = "POST" /\ calls[2].status = ConnectError
    /\ ~resp.success /\ resp.error.text = "Failed to update page"

----------------------------------------------------------------------------
(* C26 *)

LocaleReturned == req.ep = "modify-locale" /\ pc \in {"exit", "done"} /\ session.opened = 1

\* C26: modify_site_locale called with an absent payload (None) issues no
\* write request and returns success=true with skipped=true; called with an
\* empty mapping it issues no write request and returns success=false (not
\* skipped), naming the page path in both results.
C26_LocaleNoneSkipsEmptyFails ==
    LocaleReturned =>
        /\ req.jcr_content = NonePayload =>
              /\ Posts(calls) = <<>>
              /\ local.r1.success /\ local.r1.skipped
              /\ local.r1.path = req.page_path
        /\ req.jcr_content = EmptyPayload =>
              /\ Posts(calls) = <<>>
              /\ ~local.r1.success /\ ~local.r1.skipped
              /\ local.r1.path = req.page_path

C26_Witness ==
    /\ LocaleReturned /\ pc = "done" /\ req.jcr_content = NonePayload
    /\ Len(calls) = 1 /\ local.r1.success /\ local.r1.skipped
    /\ pages[req.page_path] = <<>>

----------------------------------------------------------------------------
(* C29 *)

\* the data of a write is the mapping with _charset_ set to utf-8: the same
\* keys plus _charset_, the caller's value for every other key
SentWithCharset(data, m) ==
    /\ DOMAIN data = DOMAIN m \cup {"_charset_"}
    /\ data["_charset_"] = "utf-8"
    /\ \A k \in DOMAIN m \ {"_charset_"} : data[k] = m[k]

----------------------------------------------------------------------------
(* C23 *)

DuplicateDone == pc = "done" /\ req.ep = "duplicate-template" /\ resp.http = HTTP_200

\* C23: duplicate-template does not wait for the copy it asked for: the
\* copy is requested with :async = true, the property update is the call
\* right after the accepted copy (no read of the destination comes between),
\* and success with the new path is returned iff both requests were
\* answered 2xx, whether the repository has finished the copy or not; so an
\* execution is reachable (C23_Witness) in which the update was issued and
\* success returned while the copy at the destination is still running.
C23_UpdateDoesNotAwaitCopy ==
    /\ req.ep = "duplicate-template" =>
          /\ \A k \in 1..Len(calls) : calls[k].method = "GET" => k <= 2
          /\ Len(calls) >= 3 => calls[3].data[":async"] = <<"true">>
          /\ Len(calls) >= 4 =>
                /\ ~raise_for_status(calls[3].status)
                /\ calls[4].method = "POST" /\ calls[4].url = calls[3].data[":dest"]
    /\ DuplicateDone =>
          /\ resp.success <=>
                /\ Len(calls) = 4
                /\ ~raise_for_status(calls[3].status)
                /\ ~raise_for_status(calls[4].status)
          /\ resp.success => resp.path = calls[3].data[":dest"]

C23_Witness ==
    /\ DuplicateDone /\ resp.success /\ Len(calls) = 4
    /\ calls[3].status = 200 /\ calls[4].status = 200
    /\ resp.path = calls[4].url
    /\ resp.path \in copying

----------------------------------------------------------------------------
(* C24 *)

FolderFlow == req.ep = "folder-structure" /\ ValidSite(req.site)

\* the position of a folder path in the order of the levels, 0 if none
LevelIndex(ls, path) ==
    IF \E j \in 1..Len(ls) : ls[j].path = path
    THEN CHOOSE j \in 1..Len(ls) : ls[j].path = path
    ELSE 0

\* the folder a path lies in
ParentPath(path) == SubSeq(path, 1, Len(path) - 2)

\* the call found the folder, or created it
InPlace(c) ==
    \/ c.method = "GET" /\ c.status = 200
    \/ c.method = "POST" /\ c.status \in {200, 201}

FixedKinds(types) ==
    <<"market", "locale">> \o
        (IF Len(types) = 2
         THEN <<"site", "Images", "PDFs", "site", "Images", "PDFs">>
         ELSE <<"site", "Images", "PDFs">>)

\* C24: create_folder_structure walks market, locale, site type, Images,
\* PDFs in that order (HCP before Patient for Both); the first call is the
\* check of the market folder; a create is always the call right after the
\* check of the same folder and that check did not answer 'exists'; a
\* folder is checked once, and only right after the folder of the level
\* before it was found or created; and every folder below the market
\* folder lies in a folder that an earlier call of the same run found
\* existing or created.
C24_FixedOrderCheckBeforeCreate ==
    FolderFlow =>
      LET ls == Levels(req) IN
      /\ [j \in 1..Len(ls) |-> ls[j].kind] = FixedKinds(sites_to_create(req.site))
      /\ Len(sites_to_create(req.site)) = 2 =>
            /\ ls[3].path = site_path(req, "HCP")
            /\ ls[6].path = site_path(req, "Patient")
      /\ \A j \in 2..Len(ls) : LevelIndex(ls, ParentPath(ls[j].path)) \in 1..(j - 1)
      /\ \A k \in 1..Len(calls) :
            LET c == calls[k]
                j == LevelIndex(ls, c.url)
            IN  /\ j >= 1
                /\ k = 1 => c.method = "GET" /\ j = 1
                /\ c.method = "POST" =>
                      /\ k > 1
                      /\ calls[k - 1].method = "GET"
                      /\ calls[k - 1].url = c.url
                      /\ ~check_folder_exists(calls[k - 1].status)
                /\ (c.method = "GET" /\ k > 1) =>
                      /\ LevelIndex(ls, calls[k - 1].url) = j - 1
                      /\ InPlace(calls[k - 1])
                /\ j >= 2 =>
                      \E h \in 1..(k - 1) :
                          /\ calls[h].url = ParentPath(c.url)
                          /\ InPlace(calls[h])

C24_Witness ==
    /\ FolderFlow /\ pc = "done" /\ local.fs.success
    /\ Len(Levels(req)) = 8
    /\ Len(local.fs.created_folders) \in 1..7
    /\ \E k \in 1..Len(calls) : calls[k].method = "GET" /\ calls[k].status = 200
    /\ \E k \in 1..Len(calls) : calls[k].method = "POST" /\ calls[k].status = 201

----------------------------------------------------------------------------
(* C27 *)

\* the create requests one call sent for a folder path
CreatesOf(cs, path) ==
    {k \in 1..Len(cs) : cs[k].method = "POST" /\ cs[k].url = path}

Listed(created, path) == \E k \in 1..Len(created) : created[k] = path

RacePaths == {Levels(req)[j].path : j \in 1..Len(Levels(req))}

\* C27: when two create_folder_structure calls with the same arguments run
\* concurrently on one repository, every folder path gets at most one create
\* request from the two calls together and is listed in the created_folders
\* of at most one of them.
C27_OneCreatePerPathAcrossCalls ==
    (req.ep = "folder-structure" /\ peer.pc # "none") =>
        \A path \in RacePaths :
            /\ Cardinality(CreatesOf(calls, path))
                 + Cardinality(CreatesOf(peer.calls, path)) <= 1
            /\ ~(Listed(local.created, path) /\ Listed(peer.created, path))

\* both calls found the folder missing before either created it: both post
\* the create, the repository answers 201 to one and 200 to the other, and
\* both list the folder as created
C27_BothCreate ==
    /\ req.ep = "folder-structure" /\ peer.pc # "none"
    /\ Len(calls) >= 2 /\ Len(peer.calls) >= 2
    /\ calls[1].status = 404 /\ peer.calls[1].status = 404
    /\ calls[2].method = "POST" /\ peer.calls[2].method = "POST"
    /\ calls[2].url = peer.calls[2].url
    /\ {calls[2].status, peer.calls[2].status} = {200, 201}
    /\ Listed(local.created, calls[2].url) /\ Listed(peer.created, calls[2].url)

----------------------------------------------------------------------------
(* C28 *)

UploadReturned == req.ep = "upload-files" /\ pc = "done"

FilesSupplied == Len(req.images) + Len(req.pdfs)

Uploaded(results) == {k \in 1..Len(results) : results[k].success}

\* C28: upload_files_to_dam returns success=true only if every file the
\* caller supplied was uploaded, and the totals it returns add up to the
\* number of files supplied, whichever of images, images_path, pdfs and
\* pdfs_path are present.
C28_SuccessMeansAllSuppliedUploaded ==
    UploadReturned =>
        LET out == local.up.out IN
        /\ out.success =>
              Cardinality(Uploaded(out.uploaded_images))
                + Cardinality(Uploaded(out.uploaded_pdfs)) = FilesSupplied
        /\ out.has_totals =>
              out.total_successful + out.total_failed = FilesSupplied

\* images supplied without images_path: no request is sent for them, yet the
\* call returns success with totals that leave them out
C28_SuppliedImagesSkipped ==
    /\ UploadReturned
    /\ req.images = <<Png>> /\ req.images_path = <<>> /\ req.pdfs = <<>>
    /\ calls = <<>>
    /\ local.up.out.success
    /\ local.up.out.total_successful = 0 /\ local.up.out.total_failed = 0

----------------------------------------------------------------------------
(* C30 *)

AppCalled == local.app # NoApp

AppEndpoint == lstrip(strip(local.app.payload.endpoint.text))

\* the handler was called and left by an HTTPException
HandlerRaised ==
    local.app.request # NoRequest /\ pc = "done" /\ resp.http # HTTP_200

\* C30: get_app never raises and returns, for every payload, a dict with
\* exactly the keys data, model_time_ms and timing; an endpoint text that,
\* stripped of blanks and then of leading slashes, is none of the twelve
\* names gives data.error with the twelve available endpoints and no handler
\* is called (no request object, no remote call); an exception a handler
\* raises gives data.success = false with the text of the exception.
C30_GetAppAlwaysReturnsEnvelope ==
    AppCalled =>
        /\ ~local.app.raised
        /\ local.app.request # NoRequest =>
              local.app.payload.endpoint.is_str /\ Routes(AppEndpoint)
        /\ local.app.returned =>
              LET result == local.app.result IN
              /\ pc = "done"
              /\ DOMAIN result = {"data", "model_time_ms", "timing"}
              /\ result.data.kind \in {"body", "failure", "unknown", "exception"}
              /\ (local.app.payload.endpoint.is_str /\ ~Routes(AppEndpoint)) =>
                    /\ result.data.kind = "unknown"
                    /\ result.data.error = "Unknown endpoint"
                    /\ result.data.available_endpoints = available_endpoints
                    /\ local.app.request = NoRequest
                    /\ calls = <<>> /\ session = NoSession
              /\ HandlerRaised =>
                    /\ result.data.success = "False"
                    /\ result.data.error = resp.message
              /\ (local.app.request # NoRequest /\ resp.http = HTTP_200) =>
                    /\ result.data.kind = "body"
                    /\ result.data.body = resp

C30_Witness ==
    /\ local.app.returned /\ HandlerRaised
    /\ local.app.payload.endpoint.text = <<" ", "/", "/", "duplicate-template", " ">>
    /\ resp.http = HTTP_400
    /\ local.app.result.data.success = "False"
    /\ local.app.result.data.error = "Cannot connect to AEM instance"

====
